---- MODULE Spec2Model ----
(***************************************************************************)
(* Model of the skagent Agent/Task Registry (package agents) and of the    *)
(* project synchronisation manager (package project).                      *)
(*                                                                         *)
(* Registry: every method takes r.mu for its whole body (Lock + defer      *)
(* Unlock), so a method body is one atomic step.  Goroutines that call     *)
(* AssignTask concurrently are modelled as calls blocked on r.mu.Lock();   *)
(* they run their bodies one at a time, in any order.                      *)
(*                                                                         *)
(* Manager (package project): the mirror m.tasks holds pointers, so two    *)
(* keys can share one Task; each TaskAssignment is an object that the map  *)
(* m.assignments and the executeTask goroutine dispatched with it both     *)
(* point to.  A webhook handler is one step; executeTask is one step per   *)
(* blocking call (GetTask, UpdateTaskStatus, executeWithAgent).  Strings   *)
(* the code scans (titles, capabilities) are sequences of characters.      *)
(***************************************************************************)
EXTENDS Integers, Sequences, FiniteSets, TLC

\* ---------------------------------------------------------------- bounds
NumGoroutines == 2      \* goroutines that call AssignTask concurrently
MaxCompleted == 2       \* cap on Stats.TasksCompleted in Spec, SpecStats
MaxCompletedAssign == 1 \* cap on Stats.TasksCompleted in SpecAssign
MaxAssignments == 2     \* TaskAssignments the sync manager makes in SpecSync
MaxFetched == 2         \* tasks one GetTasks call returns in SpecSync
MaxCycles == 2          \* poll cycles the taskPoller runs in SpecStop
MaxTools == 3           \* tools added to the ToolManager in SpecTools
MaxRetriesBound == 2    \* the largest Config.MaxRetries in SpecRetry

\* Identities a caller may use.  An ID outside the map is an unknown identity.
AgentIDs == {"a1", "a2"}
TaskIDs == {"t1", "t2"}
NoAgent == ""           \* Task.AssignedTo == ""
NoTask == "nil"         \* Agent.CurrentTask == nil
NilResult == "nil"      \* result == nil
Results == {NilResult, "result"}
Goroutines == 1..NumGoroutines

\* Labels of the agents and tasks handed to RegisterAgent / CreateTask.
Labels == {"backend", "docs"}
AgentLabelSets == {{}, {"backend"}}
TaskLabelSets == {{}, {"backend"}, {"docs"}}
\* Stats.TasksFailed of an agent struct handed to RegisterAgent.
InputFailed == {0, 1}

\* ------------------------------------------------------------- constants
StatusIdle == "idle"
StatusWorking == "working"
StatusPaused == "paused"
StatusError == "error"
StatusOffline == "offline"

TaskStatusPending == "pending"
TaskStatusQueued == "queued"
TaskStatusInProgress == "in_progress"
TaskStatusCompleted == "completed"
TaskStatusFailed == "failed"
TaskStatusCancelled == "cancelled"

ErrNil == "nil"
ErrAgentNotFound == "agent not found"
ErrTaskNotFound == "task not found"
ErrAgentBusy == "agent is busy"

VARIABLES
    agents,     \* Registry.agents : map[string]*Agent
    tasks,      \* Registry.tasks  : map[string]*Task
    ret,        \* what the last completed Registry method call returned:
                \* its error, and for AutoAssign the count of assignments
    race,       \* concurrent AssignTask calls: blocked on r.mu, or returned
    config,     \* Manager.config : the AutoAssign flag
    mtasks,     \* Manager.tasks : map[string]*Task, the Task each key points to
    share,      \* for each key of Manager.tasks, the keys pointing to the same Task
    assignments,\* Manager.assignments : map[string]*TaskAssignment, as an index of asg
    asg,        \* the TaskAssignment objects made so far, each with the position
                \* (pc) and the result of the executeTask goroutine that holds it
    received,   \* the last request handleWebhook served: the event's type and
                \* task_id, and the response written
    net,        \* the calls made so far of the project manager's API and of
                \* the task execution routine, each with the locks its
                \* goroutine held when it made the call
    acc,        \* the reads and writes made so far of Manager.tasks, of
                \* Manager.assignments and of a TaskAssignment's Status,
                \* each with the locks its goroutine held
    life,       \* the manager's life cycle: ctx (active or cancelled), wg (the
                \* WaitGroup counter), the positions of the taskPoller
                \* goroutine, of the webhook server and of Stop, the outcomes
                \* of the GetTasks calls of the poll cycles (polls), and the
                \* executions running when ctx was cancelled (inflight)
    tm,         \* the ToolManager: tools ([]Tool, in registration order) and
                \* the last call of one of its methods, with what it
                \* returned (ret)
    retry       \* one call of retry.Do: its arguments (cfg, retryable), its
                \* locals (attempt, wait, lastErr), what the caller's context
                \* is, the results of the calls of fn made so far (calls),
                \* the waits made so far (waits), and what Do returned (ret)

regVars == <<agents, tasks, ret, race>>
syncVars == <<config, mtasks, share, assignments, asg, received, net, acc, life>>
libVars == <<tm, retry>>
vars == <<agents, tasks, ret, race, config, mtasks, share, assignments, asg,
         received, net, acc, life, tm, retry>>

\* ---------------------------------------------------------------- helpers
RECURSIVE GCD(_, _)
GCD(a, b) == IF b = 0 THEN a ELSE GCD(b, a % b)

\* float64(n) / float64(d) for small non-negative n, d > 0: the rational n/d
\* in lowest terms (two such quotients are equal floats iff equal rationals).
Div(n, d) == LET g == GCD(n, d) IN <<n \div g, d \div g>>
ZeroRate == <<0, 1>>

Min(S) == CHOOSE x \in S : \A y \in S : x <= y

Perms(S) == {s \in [1..Cardinality(S) -> S] : \A i, j \in DOMAIN s : i # j => s[i] # s[j]}

Ret(err, n) == [err |-> err, assigned |-> n]

NoRace == [calls |-> <<>>, pending |-> {}, ret |-> <<>>, idle |-> {}]

\* An Agent struct as a caller builds it before RegisterAgent: no Status, no
\* CurrentTask, Stats zero but for failed earlier failures.
AgentStruct(labels, auto, failed, caps, load) ==
    [Status |-> "", Labels |-> labels, AutoAssign |-> auto,
     CurrentTask |-> NoTask, TasksCompleted |-> 0, TasksFailed |-> failed,
     SuccessRate |-> ZeroRate, Capabilities |-> caps, Load |-> load]

\* An agent without labels, capabilities or load.
PlainAgent == AgentStruct({}, TRUE, 0, <<>>, 0)

\* A Task struct as a caller builds it before CreateTask.
TaskStruct(labels) ==
    [Status |-> "", AssignedTo |-> NoAgent, Labels |-> labels,
     Result |-> NilResult, StartedAt |-> FALSE, CompletedAt |-> FALSE]

Put(m, k, v) == [x \in DOMAIN m \cup {k} |-> IF x = k THEN v ELSE m[x]]
Remove(m, k) == [x \in DOMAIN m \ {k} |-> m[x]]

\* No goroutine is blocked in AssignTask.
Quiet == race.pending = {}

\* A call of the project manager's API (or of the task execution routine)
\* made by a goroutine that holds the locks of held.
Call(name, held) == [call |-> name, held |-> held]

\* A read or write of the manager's shared state made by a goroutine that
\* holds the locks of held: "taskMutex" after Lock(), "taskMutex.RLock"
\* after RLock().
Access(kind, target, held) == [kind |-> kind, target |-> target, held |-> held]

\* The manager after NewManager: Start and Stop not called.
NotStarted ==
    [ctx |-> "active", wg |-> 0, poller |-> "none", webhook |-> "none",
     stop |-> "none", polls |-> <<>>, inflight |-> {}]

\* NewToolManager: no tool registered, no method called.
NewToolManager == [tools |-> <<>>, ret |-> [call |-> "none"]]

\* retry.Do has not been called.
NotCalled == [pc |-> "none"]

\* No webhook request has been served.
NoRequest == [Type |-> "", task_id |-> "", resp |-> ""]

\* ------------------------------------------------------------------- Init
\* NewRegistry
InitRegistry ==
    /\ agents = <<>>
    /\ tasks = <<>>
    /\ ret = Ret(ErrNil, 0)
    /\ race = NoRace
    /\ tm = NewToolManager
    /\ retry = NotCalled

\* NewManager with config.AutoAssign = auto
InitManager(auto) ==
    /\ config = [AutoAssign |-> auto, Enabled |-> TRUE]
    /\ mtasks = <<>>
    /\ share = <<>>
    /\ assignments = <<>>
    /\ asg = <<>>
    /\ received = NoRequest
    /\ net = {}
    /\ acc = {}
    /\ life = NotStarted

Init == InitRegistry /\ InitManager(FALSE)

\* ---------------------------------------------------------------- actions
\* id: agent.ID, or the new uuid when agent.ID is empty.
RegisterAgent(id, agent) ==
    /\ Quiet
    /\ agents' = Put(agents, id, [agent EXCEPT !.Status = StatusIdle])
    /\ ret' = Ret(ErrNil, 0)
    /\ race' = NoRace
    /\ UNCHANGED <<syncVars, libVars>>
    /\ UNCHANGED tasks

\* id: task.ID, or the new uuid when task.ID is empty.
CreateTask(id, task) ==
    /\ Quiet
    /\ tasks' = Put(tasks, id, [task EXCEPT !.Status = TaskStatusPending])
    /\ ret' = Ret(ErrNil, 0)
    /\ race' = NoRace
    /\ UNCHANGED <<syncVars, libVars>>
    /\ UNCHANGED agents

\* Variant of AgentBusy: only an Offline agent counts as unavailable.
AgentBusyOfflineOnly(agent) == agent.Status = StatusOffline

\* The agent-availability check of AssignTask.
AgentBusy(agent) == agent.Status # StatusIdle

\* What AssignTask(taskID, agentID) returns.
AssignTaskErr(taskID, agentID) ==
    IF taskID \notin DOMAIN tasks THEN ErrTaskNotFound
    ELSE IF agentID \notin DOMAIN agents THEN ErrAgentNotFound
    ELSE IF AgentBusy(agents[agentID]) THEN ErrAgentBusy
    ELSE ErrNil

\* Variant of AssignTaskBody: the task is written before the agent's
\* availability is checked.
AssignTaskBodyEager(taskID, agentID) ==
    IF AssignTaskErr(taskID, agentID) \in {ErrNil, ErrAgentBusy}
    THEN /\ tasks' = [tasks EXCEPT ![taskID].AssignedTo = agentID,
                                   ![taskID].Status = TaskStatusInProgress,
                                   ![taskID].StartedAt = TRUE]
         /\ IF AssignTaskErr(taskID, agentID) = ErrNil
            THEN agents' = [agents EXCEPT ![agentID].Status = StatusWorking,
                                          ![agentID].CurrentTask = taskID]
            ELSE UNCHANGED agents
    ELSE UNCHANGED <<agents, tasks>>

\* Variant of AssignTaskBody: the task is queued, not started.
AssignTaskBodyQueued(taskID, agentID) ==
    IF AssignTaskErr(taskID, agentID) = ErrNil
    THEN /\ tasks' = [tasks EXCEPT ![taskID].AssignedTo = agentID,
                                   ![taskID].Status = TaskStatusQueued]
         /\ agents' = [agents EXCEPT ![agentID].Status = StatusWorking,
                                     ![agentID].CurrentTask = taskID]
    ELSE UNCHANGED <<agents, tasks>>

\* The body of AssignTask, between r.mu.Lock() and the deferred Unlock.
AssignTaskBody(taskID, agentID) ==
    IF AssignTaskErr(taskID, agentID) = ErrNil
    THEN /\ tasks' = [tasks EXCEPT ![taskID].AssignedTo = agentID,
                                   ![taskID].Status = TaskStatusInProgress,
                                   ![taskID].StartedAt = TRUE]
         /\ agents' = [agents EXCEPT ![agentID].Status = StatusWorking,
                                     ![agentID].CurrentTask = taskID]
    ELSE UNCHANGED <<agents, tasks>>

\* A call of AssignTask with no other call in flight.
AssignTask(taskID, agentID) ==
    /\ Quiet
    /\ AssignTaskBody(taskID, agentID)
    /\ ret' = Ret(AssignTaskErr(taskID, agentID), 0)
    /\ race' = NoRace
    /\ UNCHANGED <<syncVars, libVars>>

\* go r.AssignTask(calls[g].task, calls[g].agent) for every g in DOMAIN calls:
\* the goroutines reach r.mu.Lock() before any of them gets the mutex.
GoAssignTask(calls) ==
    /\ Quiet
    /\ race' = [calls |-> calls, pending |-> DOMAIN calls, ret |-> <<>>,
                idle |-> {a \in DOMAIN agents : agents[a].Status = StatusIdle}]
    /\ UNCHANGED <<agents, tasks, ret, syncVars, libVars>>

\* Goroutine g gets r.mu, runs the body of AssignTask and returns.
LockedAssignTask(g) ==
    /\ g \in race.pending
    /\ AssignTaskBody(race.calls[g].task, race.calls[g].agent)
    /\ race' = [race EXCEPT !.pending = @ \ {g},
                            !.ret = Put(@, g, AssignTaskErr(race.calls[g].task,
                                                            race.calls[g].agent))]
    /\ UNCHANGED <<ret, syncVars, libVars>>

\* The statistics block of CompleteTask (agent already has TasksCompleted
\* incremented).
UpdateStats(agent, result) ==
    IF result # NilResult
    THEN IF agent.TasksCompleted > 0
         THEN [agent EXCEPT !.SuccessRate =
                   Div(agent.TasksCompleted, agent.TasksCompleted + agent.TasksFailed)]
         ELSE agent
    ELSE agent

\* Variant of CompleteAgent: CurrentTask is not cleared.
CompleteAgentKeepTask(agent, result) ==
    UpdateStats([agent EXCEPT !.Status = StatusIdle,
                              !.TasksCompleted = @ + 1], result)

\* A completion that counts a task completed without result as failed.
CompleteAgentCountFailed(agent, result) ==
    IF result = NilResult
    THEN [agent EXCEPT !.Status = StatusIdle,
                       !.CurrentTask = NoTask,
                       !.TasksFailed = @ + 1]
    ELSE UpdateStats([agent EXCEPT !.Status = StatusIdle,
                                   !.CurrentTask = NoTask,
                                   !.TasksCompleted = @ + 1], result)

\* The agent block of CompleteTask.
CompleteAgent(agent, result) ==
    UpdateStats([agent EXCEPT !.Status = StatusIdle,
                              !.CurrentTask = NoTask,
                              !.TasksCompleted = @ + 1], result)

\* A CompleteTask that does nothing for a task that is completed already.
CompleteTaskOnce(taskID, result) ==
    /\ Quiet
    /\ race' = NoRace
    /\ UNCHANGED <<syncVars, libVars>>
    /\ IF taskID \notin DOMAIN tasks
       THEN /\ ret' = Ret(ErrTaskNotFound, 0)
            /\ UNCHANGED <<agents, tasks>>
       ELSE IF tasks[taskID].Status = TaskStatusCompleted
       THEN /\ ret' = Ret(ErrNil, 0)
            /\ UNCHANGED <<agents, tasks>>
       ELSE LET assignee == tasks[taskID].AssignedTo IN
            /\ tasks' = [tasks EXCEPT ![taskID].Status = TaskStatusCompleted,
                                      ![taskID].CompletedAt = TRUE,
                                      ![taskID].Result = result]
            /\ IF assignee # NoAgent /\ assignee \in DOMAIN agents
               THEN agents' = [agents EXCEPT ![assignee] = CompleteAgent(@, result)]
               ELSE UNCHANGED agents
            /\ ret' = Ret(ErrNil, 0)

CompleteTask(taskID, result) ==
    /\ Quiet
    /\ race' = NoRace
    /\ UNCHANGED <<syncVars, libVars>>
    /\ IF taskID \notin DOMAIN tasks
       THEN /\ ret' = Ret(ErrTaskNotFound, 0)
            /\ UNCHANGED <<agents, tasks>>
       ELSE LET assignee == tasks[taskID].AssignedTo IN
            /\ tasks' = [tasks EXCEPT ![taskID].Status = TaskStatusCompleted,
                                      ![taskID].CompletedAt = TRUE,
                                      ![taskID].Result = result]
            /\ IF assignee # NoAgent /\ assignee \in DOMAIN agents
               THEN agents' = [agents EXCEPT ![assignee] = CompleteAgent(@, result)]
               ELSE UNCHANGED agents
            /\ ret' = Ret(ErrNil, 0)

\* Variant of matchesLabels: a task without labels is handled by any agent.
matchesLabelsOrNoTaskLabels(agentLabels, taskLabels) ==
    agentLabels = {} \/ taskLabels = {} \/ agentLabels \cap taskLabels # {}

matchesLabels(agentLabels, taskLabels) ==
    IF Cardinality(agentLabels) = 0 THEN TRUE
    ELSE \E al \in agentLabels : \E tl \in taskLabels : al = tl

\* Variant of Eligible: the auto-assign flag is not consulted.
EligibleIgnoreFlag(agent) == agent.Status = StatusIdle

\* An agent the inner loop of AutoAssign does not skip.
Eligible(agent) == agent.Status = StatusIdle /\ agent.AutoAssign

\* The inner loop of AutoAssign: the first agent, in the iteration order aord,
\* that is eligible and handles the task; NoAgent when the loop ends without one.
FirstMatch(ag, task, aord) ==
    LET J == {j \in DOMAIN aord :
                 Eligible(ag[aord[j]]) /\ matchesLabels(ag[aord[j]].Labels, task.Labels)}
    IN  IF J = {} THEN NoAgent ELSE aord[Min(J)]

\* The outer loop of AutoAssign over the tasks in iteration order tord, from
\* position i, with n assignments made so far; aords[t] is the order in which
\* the inner loop run for task t visits the agents.
RECURSIVE AutoAssignLoop(_, _, _, _, _, _)
AutoAssignLoop(ag, tk, tord, aords, i, n) ==
    IF i > Len(tord) THEN [agents |-> ag, tasks |-> tk, assigned |-> n]
    ELSE LET t == tord[i]
             a == IF tk[t].Status # TaskStatusPending THEN NoAgent
                  ELSE FirstMatch(ag, tk[t], aords[t])
         IN  IF a = NoAgent THEN AutoAssignLoop(ag, tk, tord, aords, i + 1, n)
             ELSE AutoAssignLoop(
                      [ag EXCEPT ![a].Status = StatusWorking, ![a].CurrentTask = t],
                      [tk EXCEPT ![t].AssignedTo = a, ![t].Status = TaskStatusQueued],
                      tord, aords, i + 1, n + 1)

\* Variant of AutoAssign: the count returned is the number of tasks.
AutoAssignCountAll(tord, aords) ==
    /\ Quiet
    /\ race' = NoRace
    /\ UNCHANGED <<syncVars, libVars>>
    /\ LET r == AutoAssignLoop(agents, tasks, tord, aords, 1, 0) IN
       /\ agents' = r.agents
       /\ tasks' = r.tasks
       /\ ret' = Ret(ErrNil, Cardinality(DOMAIN tasks))

\* tord, aords: the orders in which the range loops visit the maps (Go
\* leaves the iteration order of a map unspecified, anew for every loop).
AutoAssign(tord, aords) ==
    /\ Quiet
    /\ race' = NoRace
    /\ UNCHANGED <<syncVars, libVars>>
    /\ LET r == AutoAssignLoop(agents, tasks, tord, aords, 1, 0) IN
       /\ agents' = r.agents
       /\ tasks' = r.tasks
       /\ ret' = Ret(ErrNil, r.assigned)

StartAgent(agentID) ==
    /\ Quiet
    /\ race' = NoRace
    /\ UNCHANGED <<syncVars, libVars>>
    /\ IF agentID \notin DOMAIN agents
       THEN /\ ret' = Ret(ErrAgentNotFound, 0)
            /\ UNCHANGED <<agents, tasks>>
       ELSE /\ agents' = [agents EXCEPT ![agentID].Status = StatusIdle]
            /\ ret' = Ret(ErrNil, 0)
            /\ UNCHANGED tasks

StopAgent(agentID) ==
    /\ Quiet
    /\ race' = NoRace
    /\ UNCHANGED <<syncVars, libVars>>
    /\ IF agentID \notin DOMAIN agents
       THEN /\ ret' = Ret(ErrAgentNotFound, 0)
            /\ UNCHANGED <<agents, tasks>>
       ELSE /\ agents' = [agents EXCEPT ![agentID].Status = StatusOffline]
            /\ ret' = Ret(ErrNil, 0)
            /\ UNCHANGED tasks

\* CreateAgent builds an agent without ID or labels and registers it under a
\* new uuid; auto is config["auto_assign"] when it is a bool, else true.
CreateAgent(id, auto) ==
    /\ id \notin DOMAIN agents
    /\ RegisterAgent(id, [AgentStruct({}, auto, 0, <<>>, 0) EXCEPT !.Status = StatusIdle])

\* Variant of DeleteAgent: no existence check before delete().
DeleteAgentUnchecked(agentID) ==
    /\ Quiet
    /\ race' = NoRace
    /\ UNCHANGED <<syncVars, libVars>>
    /\ agents' = Remove(agents, agentID)
    /\ ret' = Ret(ErrNil, 0)
    /\ UNCHANGED tasks

DeleteAgent(agentID) ==
    /\ Quiet
    /\ race' = NoRace
    /\ UNCHANGED <<syncVars, libVars>>
    /\ IF agentID \notin DOMAIN agents
       THEN /\ ret' = Ret(ErrAgentNotFound, 0)
            /\ UNCHANGED <<agents, tasks>>
       ELSE /\ agents' = Remove(agents, agentID)
            /\ ret' = Ret(ErrNil, 0)
            /\ UNCHANGED tasks

\* What GetStats returns.
GetStats ==
    [total_agents |-> Cardinality(DOMAIN agents),
     active_agents |-> Cardinality({a \in DOMAIN agents :
                          agents[a].Status \in {StatusWorking, StatusPaused}}),
     idle_agents |-> Cardinality({a \in DOMAIN agents : agents[a].Status = StatusIdle}),
     total_tasks |-> Cardinality(DOMAIN tasks),
     completed_tasks |-> Cardinality({t \in DOMAIN tasks :
                            tasks[t].Status = TaskStatusCompleted}),
     failed_tasks |-> Cardinality({t \in DOMAIN tasks :
                         tasks[t].Status = TaskStatusFailed})]

\* ------------------------------------------------- project sync manager

\* Status strings of the project manager's tasks and of TaskAssignments.
Todo == "todo"
Done == "done"
Assigned == "assigned"
Completed == "completed"
Failed == "failed"
Active == "active"

\* A field a webhook event's Data does not hold (the type assertion fails).
NoField == "<absent>"

\* The tasks of the project manager: their titles and descriptions.
Title(id) ==
    IF id = "t1" THEN <<"f", "i", "x", " ", "c", "o", "d", "e">>
                 ELSE <<"w", "i", "t", "h", " ", "d", "o", "c", "s">>
Description(id) ==
    IF id = "t1" THEN <<>> ELSE <<"n", "e", "w", " ", "c", "o", "d", "e">>

\* A project.Task as the project manager sends it.
PTask(id, status, assignee) == [ID |-> id, Status |-> status, Assignee |-> assignee]

\* A TaskAssignment, with the position of the executeTask goroutine started
\* with it ("none": no goroutine was started), that goroutine's result
\* (Status and Result["error"]), and the bodies of the status updates it
\* has sent to the project manager.
NewAssignment(taskID, agentID, pc) ==
    [TaskID |-> taskID, AgentID |-> agentID, Status |-> Assigned,
     pc |-> pc, result |-> "", error |-> "", pushed |-> <<>>]

\* newRequest: the request built for a method, path and body; it is built
\* without a body whether or not a body was given.
NoBody == "<no body>"
newRequest(method, path, body) == [Method |-> method, Path |-> path, Body |-> NoBody]

\* The request client.UpdateTaskStatus sends.
UpdateTaskStatus(taskID, status) ==
    newRequest("PATCH", <<"api", "v1", "tasks", taskID>>, [status |-> status])

\* The bodies the project manager has received after httpClient.Do(req):
\* a request made with a cancelled context is not sent.
Sent(pushed, req) == IF life.ctx = "cancelled" THEN pushed ELSE Append(pushed, req.Body)

Whitespace == {" ", "\t", "\n", "\r"}

RECURSIVE splitWordsLoop(_, _, _, _)
splitWordsLoop(text, i, current, words) ==
    IF i > Len(text)
    THEN IF current # <<>> THEN Append(words, current) ELSE words
    ELSE IF text[i] \in Whitespace
         THEN IF current # <<>>
              THEN splitWordsLoop(text, i + 1, <<>>, Append(words, current))
              ELSE splitWordsLoop(text, i + 1, current, words)
         ELSE splitWordsLoop(text, i + 1, Append(current, text[i]), words)

splitWords(text) == splitWordsLoop(text, 1, <<>>, <<>>)

stopWords ==
    {<<"t", "h", "e">>, <<"a", "n", "d">>, <<"f", "o", "r">>,
     <<"a", "r", "e">>, <<"b", "u", "t">>, <<"n", "o", "t">>,
     <<"y", "o", "u">>, <<"a", "l", "l">>, <<"c", "a", "n">>,
     <<"h", "a", "d">>, <<"h", "e", "r">>, <<"w", "a", "s">>,
     <<"o", "n", "e">>, <<"o", "u", "r">>, <<"o", "u", "t">>,
     <<"d", "a", "y">>, <<"g", "e", "t">>, <<"h", "a", "s">>,
     <<"h", "i", "m">>, <<"h", "i", "s">>, <<"h", "o", "w">>,
     <<"i", "t", "s">>, <<"m", "a", "y">>, <<"n", "e", "w">>,
     <<"n", "o", "w">>, <<"o", "l", "d">>, <<"s", "e", "e">>,
     <<"t", "w", "o">>, <<"w", "a", "y">>, <<"w", "h", "o">>,
     <<"b", "o", "y">>, <<"d", "i", "d">>, <<"s", "h", "e">>,
     <<"u", "s", "e">>, <<"w", "i", "t", "h">>, <<"t", "h", "i", "s">>,
     <<"t", "h", "a", "t">>, <<"f", "r", "o", "m">>, <<"t", "h", "e", "y">>,
     <<"h", "a", "v", "e">>, <<"w", "i", "l", "l">>, <<"w", "o", "u", "l", "d">>,
     <<"t", "h", "e", "r", "e">>, <<"t", "h", "e", "i", "r">>}
isStopWord(word) == word \in stopWords

IsKeyword(word) == Len(word) > 3 /\ ~isStopWord(word)
extractKeywords(text) == SelectSeq(splitWords(text), IsKeyword)

containsSubstring(text, substring) ==
    \E i \in 0..(Len(text) - Len(substring)) :
        SubSeq(text, i + 1, i + Len(substring)) = substring

containsString(text, substring) ==
    /\ Len(text) >= Len(substring)
    /\ \/ text = substring
       \/ /\ Len(text) > Len(substring)
          /\ \/ SubSeq(text, 1, Len(substring)) = substring
             \/ SubSeq(text, Len(text) - Len(substring) + 1, Len(text)) = substring
             \/ containsSubstring(text, substring)

\* The keywords of task.Title + " " + task.Description, for each task.
taskKeywords ==
    [id \in TaskIDs |-> extractKeywords(Title(id) \o <<" ">> \o Description(id))]

\* The score in hundredths: (number of keyword/capability matches) times
\* (100 - Load), for the code's matches * (1.0 - Load/100.0).
\* A score that leaves the agent's load out.
calculateAgentScoreNoLoad(task, agent) ==
    LET keywords == taskKeywords[task.ID]
        caps == agent.Capabilities
        matches == {p \in (DOMAIN keywords) \X (DOMAIN caps) :
                        containsString(caps[p[2]], keywords[p[1]])}
    IN Cardinality(matches) * 100

calculateAgentScore(task, agent) ==
    LET keywords == taskKeywords[task.ID]
        caps == agent.Capabilities
        matches == {p \in (DOMAIN keywords) \X (DOMAIN caps) :
                        containsString(caps[p[2]], keywords[p[1]])}
    IN Cardinality(matches) * (100 - agent.Load)

RECURSIVE findBestLoop(_, _, _, _, _)
findBestLoop(task, aord, i, bestAgent, bestScore) ==
    IF i > Len(aord) THEN bestAgent
    ELSE IF agents[aord[i]].Status # Active
         THEN findBestLoop(task, aord, i + 1, bestAgent, bestScore)
         ELSE LET score == calculateAgentScore(task, agents[aord[i]]) IN
              IF score > bestScore
              THEN findBestLoop(task, aord, i + 1, aord[i], score)
              ELSE findBestLoop(task, aord, i + 1, bestAgent, bestScore)

\* Variant of findBestAgent: the first agent of the list that is not skipped.
findBestAgentFirst(task, aord) ==
    LET candidates == SelectSeq(aord, LAMBDA a : agents[a].Status = Active)
    IN IF candidates = <<>> THEN NoAgent ELSE candidates[1]

\* aord: the order in which ListAgents returned the agents (map iteration).
findBestAgent(task, aord) == findBestLoop(task, aord, 1, NoAgent, 0)

\* autoAssignTask on st = [assignments, asg, net, acc], called by a goroutine
\* that holds the locks of held; ok: client.AssignTask succeeded.
autoAssignTask(st, task, aord, ok, held) ==
    LET agentID == findBestAgent(task, aord)
        called == st.net \cup {Call("AssignTask", held)}
    IN IF agentID = NoAgent THEN st
       ELSE IF ~ok THEN [st EXCEPT !.net = called]
       ELSE [assignments |-> Put(st.assignments, task.ID, Len(st.asg) + 1),
             asg |-> Append(st.asg, NewAssignment(task.ID, agentID, "GetTask")),
             net |-> called,
             acc |-> st.acc \cup {Access("write", "assignments", held)}]

\* m.tasks[key] = a pointer to a Task no other key points to.
StoreOwn(sh, key) ==
    [k \in DOMAIN sh \cup {key} |-> IF k = key THEN {key} ELSE sh[k] \ {key}]

\* The keys of keys point to one Task, which no other key points to.
StoreShared(sh, keys) ==
    [k \in DOMAIN sh \cup keys |-> IF k \in keys THEN keys ELSE sh[k] \ keys]

\* The three event handlers say nothing of received: handleWebhook, which
\* calls them, writes it; a direct call leaves it as it is.
HandleTaskCreated(task, aord, ok) ==
    /\ mtasks' = Put(mtasks, task.ID, task)
    /\ share' = StoreOwn(share, task.ID)
    /\ LET st == [assignments |-> assignments, asg |-> asg, net |-> net,
                  acc |-> acc \cup {Access("write", "tasks", {"taskMutex"})}]
           st2 == IF config.AutoAssign /\ task.Assignee = NoAgent
                  THEN autoAssignTask(st, task, aord, ok, {}) ELSE st
       IN /\ assignments' = st2.assignments /\ asg' = st2.asg
          /\ net' = st2.net /\ acc' = st2.acc
    /\ UNCHANGED <<regVars, libVars, config, life>>

\* Variant of HandleTaskUpdated: an unknown task is added to the mirror.
HandleTaskUpdatedUpsert(taskID, status, assignee) ==
    /\ mtasks' = Put(mtasks, taskID, PTask(taskID, status, assignee))
    /\ share' = StoreOwn(share, taskID)
    /\ acc' = acc \cup {Access("read", "tasks", {"taskMutex"}),
                        Access("write", "tasks", {"taskMutex"})}
    /\ UNCHANGED <<regVars, libVars, config, life, assignments, asg, net>>

\* status, assignee: the event's fields, NoField when it has none.
HandleTaskUpdated(taskID, status, assignee) ==
    /\ IF taskID \in DOMAIN mtasks
       THEN LET new == [mtasks[taskID] EXCEPT
                           !.Status = IF status # NoField THEN status ELSE @,
                           !.Assignee = IF assignee # NoField THEN assignee ELSE @]
            IN mtasks' = [k \in DOMAIN mtasks |->
                             IF k \in share[taskID] THEN new ELSE mtasks[k]]
       ELSE UNCHANGED mtasks
    /\ acc' = acc \cup {Access("read", "tasks", {"taskMutex"})}
    /\ UNCHANGED <<regVars, libVars, config, life, share, assignments, asg, net>>

\* A handler that starts the execution whenever the task is in the mirror.
HandleTaskAssignedAnyStatus(taskID, agentID) ==
    LET pc == IF taskID \in DOMAIN mtasks THEN "GetTask" ELSE "none"
    IN /\ asg' = Append(asg, NewAssignment(taskID, agentID, pc))
       /\ assignments' = Put(assignments, taskID, Len(asg) + 1)
       /\ acc' = acc \cup {Access("write", "assignments", {"taskMutex"}),
                           Access("read", "tasks", {"taskMutex"})}
       /\ UNCHANGED <<regVars, libVars, config, life, mtasks, share, net>>

HandleTaskAssigned(taskID, agentID) ==
    LET ready == taskID \in DOMAIN mtasks /\ mtasks[taskID].Status = Todo
        pc == IF ready THEN "GetTask" ELSE "none"
    IN /\ asg' = Append(asg, NewAssignment(taskID, agentID, pc))
       /\ assignments' = Put(assignments, taskID, Len(asg) + 1)
       /\ acc' = acc \cup {Access("write", "assignments", {"taskMutex"}),
                           Access("read", "tasks", {"taskMutex"})}
       /\ UNCHANGED <<regVars, libVars, config, life, mtasks, share, net>>

\* A decoded WebhookEvent: its Type and the fields of its Data (NoField for
\* a field the Data does not hold; task is then NoTaskData).
NoTaskData == PTask(NoField, NoField, NoField)
WebhookEvent(type, task, taskID, status, assignee, agentID) ==
    [Type |-> type, task |-> task, task_id |-> taskID, status |-> status,
     assignee |-> assignee, agent_id |-> agentID]

\* An HTTP request to /webhook: its method, whether its body decodes, and
\* the event decoded from it.
Request(method, valid, event) == [Method |-> method, ValidJSON |-> valid, Event |-> event]

\* json.Unmarshal of the event's task object into a Task: a field the
\* object does not hold keeps the zero value "".
unmarshalTask(data) ==
    [f \in DOMAIN data |-> IF data[f] = NoField THEN "" ELSE data[f]]

\* The handler the switch of handleWebhook calls for the event, if any.
Dispatch(event, aord, ok) ==
    LET nothing == UNCHANGED <<regVars, libVars, config, life, mtasks, share, assignments, asg,
                               net, acc>> IN
    CASE event.Type = "task.created" ->
             IF event.task = NoTaskData THEN nothing
             ELSE HandleTaskCreated(unmarshalTask(event.task), aord, ok)
      [] event.Type = "task.updated" ->
             IF event.task_id = NoField THEN nothing
             ELSE HandleTaskUpdated(event.task_id, event.status, event.assignee)
      [] event.Type = "task.assigned" ->
             IF event.task_id = NoField \/ event.agent_id = NoField THEN nothing
             ELSE HandleTaskAssigned(event.task_id, event.agent_id)
      [] OTHER -> nothing

handleWebhook(req, aord, ok) ==
    IF req.Method # "POST"
    THEN /\ received' = [Type |-> "", task_id |-> "", resp |-> "Method not allowed"]
         /\ UNCHANGED <<regVars, libVars, config, life, mtasks, share, assignments, asg, net, acc>>
    ELSE IF ~req.ValidJSON
    THEN /\ received' = [Type |-> "", task_id |-> "", resp |-> "Invalid JSON"]
         /\ UNCHANGED <<regVars, libVars, config, life, mtasks, share, assignments, asg, net, acc>>
    ELSE /\ received' = [Type |-> req.Event.Type, task_id |-> req.Event.task_id,
                         resp |-> "processed"]
         /\ Dispatch(req.Event, aord, ok)

RECURSIVE loadLoop(_, _, _, _, _)
RECURSIVE loadLoopStop(_, _, _, _, _)
\* A loop that ends at the first task it could not assign.
loadLoopStop(st, fetched, ords, oks, i) ==
    IF i > Len(fetched) THEN st
    ELSE LET task == fetched[i]
             auto == config.AutoAssign /\ task.Assignee = NoAgent
             st2 == IF auto
                    THEN autoAssignTask(st, task, ords[i], oks[i], {"taskMutex"})
                    ELSE st
         IN IF auto /\ st2.asg = st.asg THEN st2
            ELSE loadLoopStop(st2, fetched, ords, oks, i + 1)

loadLoop(st, fetched, ords, oks, i) ==
    IF i > Len(fetched) THEN st
    ELSE LET task == fetched[i]
             st2 == IF config.AutoAssign /\ task.Assignee = NoAgent
                    THEN autoAssignTask(st, task, ords[i], oks[i], {"taskMutex"})
                    ELSE st
         IN loadLoop(st2, fetched, ords, oks, i + 1)

\* The Task that m.tasks[key] points to after the loop of loadTasks.  With a
\* loop variable per iteration (Go 1.22 on) it is the last fetched task of
\* that ID; with one loop variable for the whole loop (before Go 1.22) every
\* &task is the same pointer, and the variable holds the last fetched task.
Loaded(fetched, key, perIteration) ==
    IF perIteration
    THEN LET last == CHOOSE i \in DOMAIN fetched :
                        /\ fetched[i].ID = key
                        /\ \A j \in DOMAIN fetched : fetched[j].ID = key => j <= i
         IN fetched[last]
    ELSE fetched[Len(fetched)]

\* fetched, ok: what client.GetTasks returned; ords, oks: for each fetched
\* task, the order of ListAgents and whether client.AssignTask succeeded.
\* loadTasks says nothing of life: taskPoller, which calls it, writes it.
LoadTasks(fetched, ok, perIteration, ords, oks) ==
    IF ~ok
    THEN /\ net' = net \cup {Call("GetTasks", {})}
         /\ UNCHANGED <<regVars, libVars, config, mtasks, share, assignments, asg, received, acc>>
    ELSE LET keys == {fetched[i].ID : i \in DOMAIN fetched}
             st == loadLoop([assignments |-> assignments, asg |-> asg,
                             net |-> net \cup {Call("GetTasks", {})},
                             acc |-> acc \cup {Access("read", "tasks", {"taskMutex"})}
                                         \cup IF fetched = <<>> THEN {}
                                              ELSE {Access("write", "tasks", {"taskMutex"})}],
                            fetched, ords, oks, 1)
         IN /\ mtasks' = [k \in DOMAIN mtasks \cup keys |->
                             IF k \in keys THEN Loaded(fetched, k, perIteration)
                                           ELSE mtasks[k]]
            /\ share' = IF perIteration
                        THEN [k \in DOMAIN share \cup keys |->
                                 IF k \in keys THEN {k} ELSE share[k] \ keys]
                        ELSE StoreShared(share, keys)
            /\ assignments' = st.assignments
            /\ asg' = st.asg
            /\ net' = st.net
            /\ acc' = st.acc
            /\ UNCHANGED <<regVars, libVars, config, received>>

\* executeTask, up to the return of client.GetTask.
ExecGetTask(i, ok) ==
    /\ asg[i].pc = "GetTask"
    /\ asg' = [asg EXCEPT ![i].pc = IF ok THEN "UpdateInProgress" ELSE "returned"]
    /\ net' = net \cup {Call("GetTask", {})}
    /\ UNCHANGED <<regVars, libVars, config, life, mtasks, share, assignments, received, acc>>

\* UpdateTaskStatus(in_progress): its error is logged and ignored.
ExecUpdateInProgress(i) ==
    /\ asg[i].pc = "UpdateInProgress"
    /\ asg' = [asg EXCEPT ![i].pc = "executeWithAgent",
                          ![i].pushed = Sent(@, UpdateTaskStatus(asg[i].TaskID,
                                                                 "in_progress"))]
    /\ net' = net \cup {Call("UpdateTaskStatus", {})}
    /\ UNCHANGED <<regVars, libVars, config, life, mtasks, share, assignments, received, acc>>

\* executeWithAgent: the Registry lookup decides the result; the simulated
\* execution never fails.
executeWithAgent(agentID) ==
    IF agentID \notin DOMAIN agents THEN Failed ELSE Completed

ExecExecuteWithAgent(i) ==
    /\ asg[i].pc = "executeWithAgent"
    /\ asg' = [asg EXCEPT ![i].pc = "SetStatus",
                          ![i].result = executeWithAgent(asg[i].AgentID),
                          ![i].error = IF asg[i].AgentID \in DOMAIN agents
                                       THEN "" ELSE "Agent not found"]
    /\ net' = IF asg[i].AgentID \in DOMAIN agents
              THEN net \cup {Call("simulateTaskExecution", {})} ELSE net
    /\ UNCHANGED <<regVars, libVars, config, life, mtasks, share, assignments, received, acc>>

\* assignment.Status = result.Status
ExecSetStatus(i) ==
    /\ asg[i].pc = "SetStatus"
    /\ asg' = [asg EXCEPT ![i].pc = "UpdateFinal", ![i].Status = asg[i].result]
    /\ acc' = acc \cup {Access("write", "Status", {})}
    /\ UNCHANGED <<regVars, libVars, config, life, mtasks, share, assignments, received, net>>

\* UpdateTaskStatus(done or blocked), then executeTask returns.
ExecUpdateFinal(i) ==
    /\ asg[i].pc = "UpdateFinal"
    /\ asg' = [asg EXCEPT ![i].pc = "returned",
                          ![i].pushed = Sent(@, UpdateTaskStatus(asg[i].TaskID,
                                          IF asg[i].result = Completed
                                          THEN "done" ELSE "blocked"))]
    /\ net' = net \cup {Call("UpdateTaskStatus", {})}
    /\ UNCHANGED <<regVars, libVars, config, life, mtasks, share, assignments, received, acc>>

\* GetTaskStatus: under RLock, looks the task's assignment up and, when
\* there is one, reads its Status.
GetTaskStatus(taskID) ==
    /\ acc' = acc \cup {Access("read", "assignments", {"taskMutex.RLock"})}
                  \cup IF taskID \in DOMAIN assignments
                       THEN {Access("read", "Status", {"taskMutex.RLock"})} ELSE {}
    /\ UNCHANGED <<regVars, libVars, config, life, mtasks, share, assignments, asg, received, net>>

\* Start, called once and before Stop: nothing when the integration is
\* disabled; otherwise the webhook server is started and registered and the
\* taskPoller goroutine is started.
Start ==
    /\ life.poller = "none"
    /\ life.stop = "none"
    /\ IF ~config.Enabled THEN UNCHANGED <<life, net>>
       ELSE /\ life' = [life EXCEPT !.webhook = "serving", !.wg = @ + 1,
                                    !.poller = "initial"]
            /\ net' = net \cup {Call("CreateWebhook", {})}
    /\ UNCHANGED <<regVars, libVars, config, mtasks, share, assignments, asg, received, acc>>

\* A poll cycle that calls GetTasks again when the call failed.
TaskPollerCycleRetry(fetched, ok) ==
    /\ life.poller \in {"initial", "select"}
    /\ \E perIteration \in BOOLEAN :
           \E ords \in [DOMAIN fetched -> Perms(DOMAIN agents)],
              oks \in [DOMAIN fetched -> {life.ctx = "active"}] :
               LoadTasks(fetched, TRUE, perIteration, ords, oks)
    /\ life' = [life EXCEPT !.poller = "select",
                            !.polls = @ \o IF ok THEN <<"loaded">>
                                                 ELSE <<"failed", "loaded">>]

\* taskPoller runs loadTasks: first of all, and then whenever its select
\* takes the ticker's case (which it may also do with ctx cancelled, select
\* choosing among its ready cases).  GetTasks and AssignTask fail on a
\* cancelled ctx.
TaskPollerCycle(fetched, ok) ==
    /\ life.poller \in {"initial", "select"}
    /\ life.ctx = "cancelled" => ~ok
    /\ \E perIteration \in BOOLEAN :
           \E ords \in [DOMAIN fetched -> Perms(DOMAIN agents)],
              oks \in [DOMAIN fetched -> {life.ctx = "active"}] :
               LoadTasks(fetched, ok, perIteration, ords, oks)
    /\ life' = [life EXCEPT !.poller = "select",
                            !.polls = Append(@, IF ok THEN "loaded" ELSE "failed")]

\* taskPoller's select takes the case of ctx.Done(): the goroutine returns.
TaskPollerExit ==
    /\ life.poller = "select"
    /\ life.ctx = "cancelled"
    /\ life' = [life EXCEPT !.poller = "exited", !.wg = @ - 1]
    /\ UNCHANGED <<regVars, libVars, config, mtasks, share, assignments, asg, received, net, acc>>

\* Stop, up to m.cancel().
StopCancel ==
    /\ life.stop = "none"
    /\ life' = [life EXCEPT !.stop = "cancelled", !.ctx = "cancelled",
                            !.inflight = {i \in DOMAIN asg :
                                             asg[i].pc \notin {"none", "returned"}}]
    /\ UNCHANGED <<regVars, libVars, config, mtasks, share, assignments, asg, received, net, acc>>

\* Stop, up to the return of m.webhookServer.Stop().
StopWebhook ==
    /\ life.stop = "cancelled"
    /\ life' = [life EXCEPT !.stop = "waiting",
                            !.webhook = IF @ = "serving" THEN "shutdown" ELSE @]
    /\ UNCHANGED <<regVars, libVars, config, mtasks, share, assignments, asg, received, net, acc>>

\* Stop's select: done is closed once m.wg.Wait() returned, or the ten
\* seconds are over (timedOut).
StopWait(timedOut) ==
    /\ life.stop = "waiting"
    /\ ~timedOut => life.wg = 0
    /\ life' = [life EXCEPT !.stop = IF timedOut THEN "timeout" ELSE "returned"]
    /\ UNCHANGED <<regVars, libVars, config, mtasks, share, assignments, asg, received, net, acc>>

\* ------------------------------------------------------------ tool manager
\* The tools of the package: NewSpecKitTool(docsPath),
\* NewGitHubTool(mcpEndpoint) and NewWebSearchTool(), each with its Name()
\* and the keywords of its CanHandle.  Two tools made with different
\* arguments (arg) are different tools of the same name.
Tools ==
    {[Name |-> "speckit", arg |-> wd,
      keywords |-> <<<<"s", "p", "e", "c">>, <<"p", "l", "a", "n">>,
                    <<"t", "a", "s", "k">>,
                    <<"c", "o", "n", "s", "t", "i", "t", "u", "t", "i", "o", "n">>,
                    <<"i", "m", "p", "l", "e", "m", "e", "n", "t">>,
                    <<"s", "p", "e", "c", "i", "f", "y">>>>]
         : wd \in {"", "w"}}
    \cup
    {[Name |-> "github", arg |-> wd,
      keywords |-> <<<<"g", "i", "t", "h", "u", "b">>,
                    <<"r", "e", "p", "o">>,
                    <<"r", "e", "p", "o", "s", "i", "t", "o", "r", "y">>,
                    <<"c", "l", "o", "n", "e">>,
                    <<"i", "s", "s", "u", "e">>, <<"p", "r">>,
                    <<"p", "u", "l", "l", " ", "r", "e", "q", "u", "e", "s", "t">>>>]
         : wd \in {"", "w"}}
    \cup
    {[Name |-> "websearch", arg |-> "",
      keywords |-> <<<<"s", "e", "a", "r", "c", "h">>,
                    <<"f", "i", "n", "d">>,
                    <<"l", "o", "o", "k", " ", "u", "p">>,
                    <<"l", "o", "o", "k", "u", "p">>,
                    <<"g", "o", "o", "g", "l", "e">>, <<"w", "e", "b">>>>]}

\* The intents asked for: "search repo", "Find PR", "Plan", "xyz".
Intents ==
    {<<"s", "e", "a", "r", "c", "h", " ", "r", "e", "p", "o">>,
     <<"F", "i", "n", "d", " ", "P", "R">>,
     <<"P", "l", "a", "n">>,
     <<"x", "y", "z">>}

NilTool == [Name |-> "<nil>"]

\* Tool.CanHandle: the lower-cased intent contains one of the keywords.
CanHandle(tool, intent) ==
    LET ToLower(c) == CASE c = "F" -> "f" [] c = "P" -> "p" [] c = "R" -> "r"
                        [] OTHER -> c
        lower == [i \in DOMAIN intent |-> ToLower(intent[i])]
    IN \E k \in DOMAIN tool.keywords : containsSubstring(lower, tool.keywords[k])

AddTool(tool) ==
    /\ tm' = [tools |-> Append(tm.tools, tool), ret |-> [call |-> "AddTool"]]
    /\ UNCHANGED <<regVars, syncVars, retry>>

GetTool(name) ==
    LET RECURSIVE loop(_)
        loop(i) == IF i > Len(tm.tools) THEN NilTool
                   ELSE IF tm.tools[i].Name = name THEN tm.tools[i]
                   ELSE loop(i + 1)
    IN /\ tm' = [tm EXCEPT !.ret = [call |-> "GetTool", arg |-> name,
                                    out |-> loop(1)]]
       /\ UNCHANGED <<regVars, syncVars, retry>>

ToolManagerCanHandle(intent) ==
    LET RECURSIVE loop(_)
        loop(i) == IF i > Len(tm.tools) THEN FALSE
                   ELSE IF CanHandle(tm.tools[i], intent) THEN TRUE
                   ELSE loop(i + 1)
    IN /\ tm' = [tm EXCEPT !.ret = [call |-> "CanHandle", arg |-> intent,
                                    out |-> loop(1)]]
       /\ UNCHANGED <<regVars, syncVars, retry>>

\* A lookup that keeps the last tool that can handle the intent.
FindToolLast(intent) ==
    LET RECURSIVE loop(_, _)
        loop(i, found) == IF i > Len(tm.tools) THEN found
                          ELSE IF CanHandle(tm.tools[i], intent)
                               THEN loop(i + 1, tm.tools[i])
                               ELSE loop(i + 1, found)
    IN /\ tm' = [tm EXCEPT !.ret = [call |-> "FindTool", arg |-> intent,
                                    out |-> loop(1, NilTool)]]
       /\ UNCHANGED <<regVars, syncVars, retry>>

FindTool(intent) ==
    LET RECURSIVE loop(_)
        loop(i) == IF i > Len(tm.tools) THEN NilTool
                   ELSE IF CanHandle(tm.tools[i], intent) THEN tm.tools[i]
                   ELSE loop(i + 1)
    IN /\ tm' = [tm EXCEPT !.ret = [call |-> "FindTool", arg |-> intent,
                                    out |-> loop(1)]]
       /\ UNCHANGED <<regVars, syncVars, retry>>

\* ------------------------------------------------------------------ retry
\* Errors are their texts; "nil" is no error.  What Do returns is the
\* sequence of the errors it wraps: <<"nil">> for nil, <<err>> for err
\* itself, two errors for errors.Join of them (Join leaves a nil out).
\* Durations are integers, Multiplier is a fraction
\* <<numerator, denominator>>.

\* DefaultIsRetryable: the context's deadline error is retried, its
\* cancellation is not, and any other error is when its text holds one of
\* the retryable patterns.
DefaultIsRetryable(err) ==
    IF err = "nil" THEN FALSE
    ELSE IF err = "context deadline exceeded" THEN TRUE
    ELSE IF err = "context canceled" THEN FALSE
    ELSE err \in {"connection refused", "connection reset by peer",
                  "i/o timeout", "503 Service Unavailable"}

\* Do is called with a context that may be done already, a Config and an
\* isRetryable that is nil or a function of the caller ("all": true for
\* every error, "none": false for every error); up to the loop's head.
Do(ctxErr, cfg, retryableArg) ==
    /\ retry.pc = "none"
    /\ retry' = [pc |-> "check", ctx |-> ctxErr, cfg |-> cfg,
                 isRetryable |-> IF retryableArg = "nil" THEN "default"
                                                         ELSE retryableArg,
                 attempt |-> 0, wait |-> cfg.InitialWait, lastErr |-> "nil",
                 calls |-> <<>>, waits |-> <<>>, ret |-> <<>>]
    /\ UNCHANGED <<regVars, syncVars, tm>>

\* isRetryable(err) as Do calls it: DefaultIsRetryable when the caller
\* passed nil, the caller's function otherwise.
isRetryable(err) ==
    CASE retry.isRetryable = "default" -> DefaultIsRetryable(err)
      [] retry.isRetryable = "all" -> TRUE
      [] retry.isRetryable = "none" -> FALSE

\* The caller's context is cancelled, or its deadline passes, while Do runs.
CancelContext(err) ==
    /\ retry.pc \in {"check", "fn", "wait"}
    /\ retry.ctx = "nil"
    /\ retry' = [retry EXCEPT !.ctx = err]
    /\ UNCHANGED <<regVars, syncVars, tm>>

\* The loop's head without the check of the context.
DoCheckNoCtx ==
    /\ retry.pc = "check"
    /\ retry' = IF retry.attempt > retry.cfg.MaxRetries
                THEN [retry EXCEPT !.pc = "returned",
                                   !.ret = <<"max retries exceeded">>]
                ELSE [retry EXCEPT !.pc = "fn"]
    /\ UNCHANGED <<regVars, syncVars, tm>>

\* The loop's condition and the check of the context before an attempt.
DoCheck ==
    /\ retry.pc = "check"
    /\ retry' = IF retry.attempt > retry.cfg.MaxRetries
                THEN [retry EXCEPT !.pc = "returned",
                                   !.ret = IF retry.lastErr = "nil"
                                           THEN <<"max retries exceeded">>
                                           ELSE <<"max retries exceeded",
                                                  retry.lastErr>>]
                ELSE IF retry.ctx # "nil"
                THEN [retry EXCEPT !.pc = "returned", !.ret = <<retry.ctx>>]
                ELSE [retry EXCEPT !.pc = "fn"]
    /\ UNCHANGED <<regVars, syncVars, tm>>

\* An attempt that is followed by a wait whatever fn returned.
DoFnKeepGoing(err) ==
    /\ retry.pc = "fn"
    /\ retry' = LET r == [retry EXCEPT !.lastErr = err, !.calls = Append(@, err)] IN
                IF retry.attempt = retry.cfg.MaxRetries
                THEN [r EXCEPT !.pc = "returned",
                               !.ret = <<"max retries exceeded", err>>]
                ELSE [r EXCEPT !.pc = "wait", !.waits = Append(@, retry.wait)]
    /\ UNCHANGED <<regVars, syncVars, tm>>

\* lastErr = fn(), with err what fn returns, up to the select.
DoFn(err) ==
    /\ retry.pc = "fn"
    /\ retry' = LET r == [retry EXCEPT !.lastErr = err, !.calls = Append(@, err)]
                IN IF err = "nil"
                   THEN [r EXCEPT !.pc = "returned", !.ret = <<"nil">>]
                   ELSE IF ~isRetryable(err)
                   THEN [r EXCEPT !.pc = "returned", !.ret = <<err>>]
                   ELSE IF retry.attempt = retry.cfg.MaxRetries
                   THEN [r EXCEPT !.pc = "returned",
                                  !.ret = <<"max retries exceeded", err>>]
                   ELSE [r EXCEPT !.pc = "wait", !.waits = Append(@, retry.wait)]
    /\ UNCHANGED <<regVars, syncVars, tm>>

\* The select: the context's case when the context is done, the timer's
\* case when the wait is over (timer); either when both are ready.
DoWait(timer) ==
    /\ retry.pc = "wait"
    /\ ~timer => retry.ctx # "nil"
    /\ retry' = IF ~timer
                THEN [retry EXCEPT !.pc = "returned", !.ret = <<retry.ctx>>]
                ELSE LET next == (retry.wait * retry.cfg.Multiplier[1])
                                     \div retry.cfg.Multiplier[2]
                     IN [retry EXCEPT !.pc = "check",
                                      !.attempt = @ + 1,
                                      !.wait = IF next > retry.cfg.MaxWait
                                               THEN retry.cfg.MaxWait ELSE next]
    /\ UNCHANGED <<regVars, syncVars, tm>>

\* A step of the goroutine that runs Do.
DoStep ==
    \/ DoCheck
    \/ \E err \in {"nil", "connection refused", "invalid argument",
                   "context deadline exceeded", "context canceled"} : DoFn(err)
    \/ \E timer \in BOOLEAN : DoWait(timer)

\* ---------------------------------------------------------- specifications
\* The assignee of the task has completed fewer than cap tasks: keeps the
\* TasksCompleted counter of the model finite.
Below(taskID, cap) ==
    taskID \in DOMAIN tasks /\ tasks[taskID].AssignedTo \in DOMAIN agents
        => agents[tasks[taskID].AssignedTo].TasksCompleted < cap

\* Spec: every Registry operation in any order, on two agents and one task
\* (t2 stays an identity the Registry does not know).
Next ==
    \/ \E id \in AgentIDs : RegisterAgent(id, PlainAgent)
    \/ \E id \in AgentIDs : CreateAgent(id, TRUE)
    \/ CreateTask("t1", TaskStruct({"backend"}))
    \/ \E t \in TaskIDs, a \in AgentIDs : AssignTask(t, a)
    \/ \E t \in TaskIDs, res \in Results : Below(t, MaxCompleted) /\ CompleteTask(t, res)
    \/ \E tord \in Perms(DOMAIN tasks), aords \in [DOMAIN tasks -> Perms(DOMAIN agents)] :
           AutoAssign(tord, aords)
    \/ \E a \in AgentIDs : StartAgent(a)
    \/ \E a \in AgentIDs : StopAgent(a)
    \/ \E a \in AgentIDs : DeleteAgent(a)

Spec == Init /\ [][Next]_vars

\* SpecAssign: assignment, completion and deletion on two agents and two tasks.
NextAssign ==
    \/ \E id \in AgentIDs : RegisterAgent(id, PlainAgent)
    \/ \E id \in TaskIDs : CreateTask(id, TaskStruct({"backend"}))
    \/ \E t \in TaskIDs, a \in AgentIDs : AssignTask(t, a)
    \/ \E t \in TaskIDs, res \in Results : Below(t, MaxCompletedAssign) /\ CompleteTask(t, res)
    \/ \E a \in AgentIDs : DeleteAgent(a)

SpecAssign == Init /\ [][NextAssign]_vars

\* SpecStats: every Registry operation on one agent and one task; the agent
\* is registered with or without earlier failures in its Stats.
NextStats ==
    \/ \E f \in InputFailed : RegisterAgent("a1", AgentStruct({}, TRUE, f, <<>>, 0))
    \/ CreateAgent("a1", TRUE)
    \/ CreateTask("t1", TaskStruct({"backend"}))
    \/ \E t \in TaskIDs, a \in AgentIDs : AssignTask(t, a)
    \/ \E t \in TaskIDs, res \in Results : Below(t, MaxCompleted) /\ CompleteTask(t, res)
    \/ \E tord \in Perms(DOMAIN tasks), aords \in [DOMAIN tasks -> Perms(DOMAIN agents)] :
           AutoAssign(tord, aords)
    \/ \E a \in AgentIDs : StartAgent(a)
    \/ \E a \in AgentIDs : StopAgent(a)
    \/ \E a \in AgentIDs : DeleteAgent(a)

SpecStats == Init /\ [][NextStats]_vars

\* SpecRace: goroutines racing in AssignTask, on two agents and two tasks.
NextRace ==
    \/ \E id \in AgentIDs : RegisterAgent(id, PlainAgent)
    \/ \E id \in TaskIDs : CreateTask(id, TaskStruct({"backend"}))
    \/ \E a \in AgentIDs : StopAgent(a)
    \/ \E G \in SUBSET Goroutines : G # {} /\
           \E calls \in [G -> [task : TaskIDs, agent : AgentIDs]] : GoAssignTask(calls)
    \/ \E g \in Goroutines : LockedAssignTask(g)

SpecRace == Init /\ [][NextRace]_vars

\* SpecAuto: AutoAssign over agents and tasks with different labels and
\* auto-assign flags.
NextAuto ==
    \/ \E id \in AgentIDs, l \in AgentLabelSets :
           RegisterAgent(id, AgentStruct(l, TRUE, 0, <<>>, 0))
    \/ \E id \in AgentIDs, au \in BOOLEAN : CreateAgent(id, au)
    \/ \E id \in TaskIDs, l \in TaskLabelSets : CreateTask(id, TaskStruct(l))
    \/ \E tord \in Perms(DOMAIN tasks), aords \in [DOMAIN tasks -> Perms(DOMAIN agents)] :
           AutoAssign(tord, aords)
    \/ \E a \in AgentIDs : StopAgent(a)
    \/ \E a \in AgentIDs : DeleteAgent(a)

SpecAuto == Init /\ [][NextAuto]_vars

\* SpecSync: the sync manager with either AutoAssign setting, fed webhook
\* events and poll results about two tasks, task.assigned events about t1,
\* and the Registry with agent a1 coming and going.  At most MaxAssignments
\* TaskAssignments are made.
InitSync == InitRegistry /\ \E auto \in BOOLEAN : InitManager(auto)

SyncAgent == AgentStruct({}, TRUE, 0, <<<<"c", "o", "d", "e", "r">>>>, 50)
SyncStatuses == {Todo, Done}
SyncAssignees == {NoAgent, "a1"}

\* What GetTasks can return: up to MaxFetched tasks of distinct IDs, status todo.
FetchedLists ==
    {f \in UNION {[1..n -> {PTask(id, Todo, a) : id \in TaskIDs, a \in SyncAssignees}] :
                     n \in 0..MaxFetched} :
        \A i, j \in DOMAIN f : i # j => f[i].ID # f[j].ID}

\* What client.AssignTask can return for each fetched task; it is called
\* only when config.AutoAssign is set.
AssignResults(f) ==
    IF config.AutoAssign THEN [DOMAIN f -> BOOLEAN] ELSE {[i \in DOMAIN f |-> TRUE]}

NextSync ==
    \/ RegisterAgent("a1", SyncAgent)
    \/ "a1" \in DOMAIN agents /\ DeleteAgent("a1")
    \/ \E id \in TaskIDs, st \in SyncStatuses, a \in SyncAssignees,
          aord \in Perms(DOMAIN agents), ok \in BOOLEAN :
           /\ HandleTaskCreated(PTask(id, st, a), aord, ok)
           /\ Len(asg') <= MaxAssignments
           /\ UNCHANGED received
    \/ \E id \in TaskIDs, st \in SyncStatuses \cup {NoField}, a \in {"a1", NoField} :
           HandleTaskUpdated(id, st, a) /\ UNCHANGED received
    \/ /\ HandleTaskAssigned("t1", "a1")
       /\ Len(asg') <= MaxAssignments
       /\ UNCHANGED received
    \/ LoadTasks(<<>>, FALSE, TRUE, <<>>, <<>>) /\ UNCHANGED life
    \/ \E f \in FetchedLists, perIteration \in BOOLEAN :
        \E ords \in [DOMAIN f -> Perms(DOMAIN agents)], oks \in AssignResults(f) :
           /\ LoadTasks(f, TRUE, perIteration, ords, oks)
           /\ Len(asg') <= MaxAssignments
           /\ UNCHANGED life
    \/ \E i \in DOMAIN asg, ok \in BOOLEAN : ExecGetTask(i, ok)
    \/ \E i \in DOMAIN asg : ExecUpdateInProgress(i)
    \/ \E i \in DOMAIN asg : ExecExecuteWithAgent(i)
    \/ \E i \in DOMAIN asg : ExecSetStatus(i)
    \/ \E i \in DOMAIN asg : ExecUpdateFinal(i)

SpecSync == InitSync /\ [][NextSync]_vars

\* SpecWebhook: the sync manager fed HTTP requests on /webhook: events of
\* the three types and of an unknown type, with and without their fields
\* (a task object with or without its id and assignee), about two tasks,
\* and requests that are refused.
NoEvent == WebhookEvent("", NoTaskData, NoField, NoField, NoField, NoField)
WebhookEvents ==
    {WebhookEvent("task.created", task, NoField, NoField, NoField, NoField) :
        task \in {PTask(id, st, a) : id \in TaskIDs, st \in SyncStatuses, a \in SyncAssignees}
                 \cup {PTask(NoField, Todo, a) : a \in {NoField, "a1"}}
                 \cup {NoTaskData}}
    \cup {WebhookEvent("task.updated", NoTaskData, id, st, a, NoField) :
             id \in TaskIDs \cup {NoField}, st \in SyncStatuses \cup {NoField},
             a \in {"a1", NoField}}
    \cup {WebhookEvent("task.assigned", NoTaskData, id, NoField, NoField, a) :
             id \in {"t1", NoField}, a \in {"a1", NoField}}
    \cup {WebhookEvent("task.deleted", NoTaskData, "t1", NoField, NoField, NoField)}
Requests ==
    {Request("POST", TRUE, e) : e \in WebhookEvents}
    \cup {Request("POST", FALSE, NoEvent), Request("GET", TRUE, NoEvent)}

NextWebhook ==
    \/ RegisterAgent("a1", SyncAgent)
    \/ \E req \in Requests, aord \in Perms(DOMAIN agents) :
        \E ok \in IF req.Event.Type = "task.created" THEN BOOLEAN ELSE {TRUE} :
           handleWebhook(req, aord, ok) /\ Len(asg') <= MaxAssignments

SpecWebhook == InitSync /\ [][NextWebhook]_vars

\* SpecPoll: poll cycles only, against a project manager whose tasks change
\* status and assignee between cycles (it may ignore the status filter).
PollStatuses == {Todo, "in_progress"}
PollLists ==
    {f \in UNION {[1..n -> {PTask(id, st, a) : id \in TaskIDs, st \in PollStatuses,
                                                a \in SyncAssignees}] :
                     n \in 0..MaxFetched} :
        \A i, j \in DOMAIN f : i # j => f[i].ID # f[j].ID}

\* One run of loadTasks that fetched f, for some semantics of the loop
\* variable, orders of the agent list and results of client.AssignTask.
PollStep(f) ==
    \E perIteration \in BOOLEAN :
        \E ords \in [DOMAIN f -> Perms(DOMAIN agents)], oks \in AssignResults(f) :
            LoadTasks(f, TRUE, perIteration, ords, oks) /\ UNCHANGED life

NextPoll ==
    \/ RegisterAgent("a1", SyncAgent)
    \/ LoadTasks(<<>>, FALSE, TRUE, <<>>, <<>>) /\ UNCHANGED life
    \/ \E f \in PollLists : PollStep(f) /\ Len(asg') <= MaxAssignments

SpecPoll == InitSync /\ [][NextPoll]_vars

\* SpecBest: the scoring of agents.  NewManager is handed a Registry; its
\* agents are the *Agent structs their creator still holds, with one of two
\* capabilities, a Load, and a Status of idle or of the "active" that
\* findBestAgent asks for.  The manager, with auto-assign on, is fed
\* task.created events about unassigned tasks.
BestStatuses == {StatusIdle, Active}
BestLoads == {0, 50, 100}
BestCapabilities == {<<<<"c", "o", "d", "e", "r">>>>, <<<<"d", "o", "c", "s">>>>}
BestAgents ==
    {[AgentStruct({}, TRUE, 0, caps, load) EXCEPT !.Status = st] :
        caps \in BestCapabilities, load \in BestLoads, st \in BestStatuses}
BestTasks == {PTask(id, Todo, NoAgent) : id \in TaskIDs}
BestLists == {f \in FetchedLists : \A i \in DOMAIN f : f[i] \in BestTasks}

InitBest ==
    /\ \E ids \in SUBSET AgentIDs : agents \in [ids -> BestAgents]
    /\ tasks = <<>>
    /\ ret = Ret(ErrNil, 0)
    /\ race = NoRace
    /\ tm = NewToolManager
    /\ retry = NotCalled
    /\ InitManager(TRUE)

NextBest ==
    \E task \in BestTasks, aord \in Perms(DOMAIN agents), ok \in BOOLEAN :
        /\ HandleTaskCreated(task, aord, ok)
        /\ Len(asg') <= MaxAssignments
        /\ UNCHANGED received

SpecBest == InitBest /\ [][NextBest]_vars

\* SpecLock: the same manager and Registry, fed poll results about
\* unassigned tasks.
NextLock ==
    \/ LoadTasks(<<>>, FALSE, TRUE, <<>>, <<>>) /\ UNCHANGED life
    \/ \E f \in BestLists : PollStep(f) /\ Len(asg') <= MaxAssignments

SpecLock == InitBest /\ [][NextLock]_vars

\* SpecCycle: the same poll cycles with every agent an "active" coder that
\* is either free (Load 0) or full (Load 100), so that a fetched task finds
\* an agent, or finds none, by the agents' loads alone.
InitCycle ==
    /\ InitBest
    /\ \A a \in DOMAIN agents :
           /\ agents[a].Status = Active
           /\ agents[a].Load # 50
           /\ agents[a].Capabilities = <<<<"c", "o", "d", "e", "r">>>>

SpecCycle == InitCycle /\ [][NextLock]_vars

\* SpecExec: executions started by task.assigned events for the mirrored
\* task t1, with the agent a1 coming and going.  SpecExecFair: the same,
\* every started executeTask goroutine being scheduled until it returns.
ExecStep(i) ==
    /\ i \in DOMAIN asg
    /\ \/ \E ok \in BOOLEAN : ExecGetTask(i, ok)
       \/ ExecUpdateInProgress(i)
       \/ ExecExecuteWithAgent(i)
       \/ ExecSetStatus(i)
       \/ ExecUpdateFinal(i)

NextExec ==
    \/ RegisterAgent("a1", SyncAgent)
    \/ "a1" \in DOMAIN agents /\ DeleteAgent("a1")
    \/ \E st \in SyncStatuses, aord \in Perms(DOMAIN agents) :
           HandleTaskCreated(PTask("t1", st, "a1"), aord, TRUE) /\ UNCHANGED received
    \/ /\ HandleTaskAssigned("t1", "a1")
       /\ Len(asg') <= MaxAssignments
       /\ UNCHANGED received
    \/ \E i \in 1..MaxAssignments : ExecStep(i)
    \/ GetTaskStatus("t1")

SpecExec == InitSync /\ [][NextExec]_vars

SpecExecFair == SpecExec /\ \A i \in 1..MaxAssignments : WF_vars(ExecStep(i))

\* SpecStop: the manager started and stopped, enabled or not, with its
\* poller, webhook requests about t1 while the webhook server serves, and
\* the executions started.  The Registry handed to NewManager is empty or
\* holds the agent a1, active.  The project manager answers every request
\* made with a live context.  At most MaxCycles poll cycles are run.
InitStop ==
    /\ \E ids \in SUBSET {"a1"} :
           agents = [id \in ids |-> [SyncAgent EXCEPT !.Status = "active"]]
    /\ tasks = <<>>
    /\ ret = Ret(ErrNil, 0)
    /\ race = NoRace
    /\ tm = NewToolManager
    /\ retry = NotCalled
    /\ \E enabled \in BOOLEAN : config = [AutoAssign |-> TRUE, Enabled |-> enabled]
    /\ mtasks = <<>> /\ share = <<>> /\ assignments = <<>> /\ asg = <<>>
    /\ received = NoRequest /\ net = {} /\ acc = {} /\ life = NotStarted

StopLists == {<<>>, <<PTask("t1", Todo, "a1")>>}
StopRequests ==
    {Request("POST", TRUE,
             WebhookEvent("task.created", PTask("t1", Todo, "a1"),
                          NoField, NoField, NoField, NoField)),
     Request("POST", TRUE,
             WebhookEvent("task.assigned", NoTaskData, "t1", NoField, NoField, "a1"))}

NextStop ==
    \/ Start
    \/ StopCancel
    \/ StopWebhook
    \/ \E timedOut \in BOOLEAN : StopWait(timedOut)
    \/ \E f \in StopLists, ok \in BOOLEAN :
           /\ Len(life.polls) < MaxCycles
           /\ TaskPollerCycle(f, ok)
    \/ TaskPollerExit
    \/ \E req \in StopRequests :
           /\ life.webhook = "serving"
           /\ \E aord \in Perms(DOMAIN agents) :
                  handleWebhook(req, aord, life.ctx = "active")
           /\ Len(asg') <= MaxAssignments
    \/ \E i \in DOMAIN asg : ExecGetTask(i, life.ctx = "active")
    \/ \E i \in DOMAIN asg : ExecUpdateInProgress(i)
    \/ \E i \in DOMAIN asg : ExecExecuteWithAgent(i)
    \/ \E i \in DOMAIN asg : ExecSetStatus(i)
    \/ \E i \in DOMAIN asg : ExecUpdateFinal(i)

SpecStop == InitStop /\ [][NextStop]_vars

\* SpecTools: a ToolManager to which at most MaxTools tools are added, in any
\* order and with repetitions, and which is asked for tools by name and by
\* intent at any time.
NextTools ==
    \/ \E tool \in Tools : Len(tm.tools) < MaxTools /\ AddTool(tool)
    \/ \E name \in {"speckit", "github", "websearch", "none"} : GetTool(name)
    \/ \E intent \in Intents : ToolManagerCanHandle(intent)
    \/ \E intent \in Intents : FindTool(intent)

SpecTools == Init /\ [][NextTools]_vars

\* SpecRepeat: one agent and two tasks, assigned and completed in any order
\* and any number of times, up to MaxCompleted completions counted.
NextRepeat ==
    \/ RegisterAgent("a1", PlainAgent)
    \/ \E id \in TaskIDs : CreateTask(id, TaskStruct({"backend"}))
    \/ \E t \in TaskIDs : AssignTask(t, "a1")
    \/ \E t \in TaskIDs, res \in Results : Below(t, MaxCompleted) /\ CompleteTask(t, res)

SpecRepeat == Init /\ [][NextRepeat]_vars

\* SpecRetry: one call of retry.Do, with MaxRetries from -1 to
\* MaxRetriesBound, an InitialWait below or above MaxWait, and a context
\* that is done before the call or becomes so during it, or never.  The
\* goroutine that runs Do is scheduled fairly; fn and the timer return.
NextRetry ==
    \/ \E ctxErr \in {"nil", "context canceled"},
          maxRetries \in -1..MaxRetriesBound, initialWait \in {1, 5},
          multiplier \in {<<2, 1>>, <<1, 2>>},
          retryableArg \in {"nil", "all", "none"} :
           Do(ctxErr, [MaxRetries |-> maxRetries, InitialWait |-> initialWait,
                       MaxWait |-> 3, Multiplier |-> multiplier], retryableArg)
    \/ \E err \in {"context canceled", "context deadline exceeded"} :
           CancelContext(err)
    \/ DoStep

SpecRetry == Init /\ [][NextRetry]_vars /\ WF_vars(DoStep)

\* ------------------------------------------------------------------ claims
RegistryUnchanged == agents' = agents /\ tasks' = tasks

RaceOver == DOMAIN race.calls # {} /\ race.pending = {}

\* C1: when goroutines race in AssignTask for an agent that was Idle before,
\* the calls naming a known task have exactly one winner, which returns nil;
\* every other one returns ErrAgentBusy, and the agent ends Working with the
\* winner's task as its CurrentTask.
C1_ExclusiveAssign ==
    RaceOver =>
        \A a \in race.idle :
            LET K == {g \in DOMAIN race.calls :
                         race.calls[g].agent = a /\ race.calls[g].task \in DOMAIN tasks}
                Won == {g \in K : race.ret[g] = ErrNil}
            IN  K # {} =>
                    /\ Cardinality(Won) = 1
                    /\ \A g \in K \ Won : race.ret[g] = ErrAgentBusy
                    /\ agents[a].Status = StatusWorking
                    /\ \A g \in Won : agents[a].CurrentTask = race.calls[g].task

\* Two goroutines raced for one Idle agent with different tasks; one won.
W_C1 ==
    /\ RaceOver
    /\ DOMAIN race.calls = {1, 2}
    /\ race.calls[1].agent = race.calls[2].agent
    /\ race.calls[1].task # race.calls[2].task
    /\ race.calls[1].agent \in race.idle
    /\ {race.calls[1].task, race.calls[2].task} \subseteq DOMAIN tasks
    /\ {race.ret[1], race.ret[2]} = {ErrNil, ErrAgentBusy}

\* C2: every registered agent has Status = Working exactly when its
\* CurrentTask is not nil.
C2_WorkingIffCurrentTask ==
    \A a \in DOMAIN agents :
        (agents[a].Status = StatusWorking) <=> (agents[a].CurrentTask # NoTask)

\* C3: no two distinct agents are Working with the same CurrentTask.
C3_OneActiveAssignment ==
    \A a, b \in DOMAIN agents :
        (/\ a # b
         /\ agents[a].Status = StatusWorking
         /\ agents[b].Status = StatusWorking
         /\ agents[a].CurrentTask # NoTask)
            => agents[a].CurrentTask # agents[b].CurrentTask

\* The executeTask goroutine started with assignment i has not returned.
InFlight(i) == asg[i].pc \notin {"none", "returned"}

\* Assignment i is the record of m.assignments for some task, or is held by an
\* executeTask goroutine in flight.
Held(i) == (\E t \in DOMAIN assignments : assignments[t] = i) \/ InFlight(i)

NonTerminal(i) == asg[i].Status \in {Assigned, "in_progress"}

\* C4: in the sync manager, for each task at most one Assignment is
\* non-terminal (assigned or in_progress) at any time, counting the record in
\* the assignments map and the records held by executeTask goroutines in flight.
C4_OneNonTerminalAssignment ==
    \A t \in TaskIDs :
        Cardinality({i \in DOMAIN asg :
                        Held(i) /\ asg[i].TaskID = t /\ NonTerminal(i)}) <= 1

\* C5: AssignTask on a known task and a known agent that is not Idle returns
\* ErrAgentBusy and leaves every task and agent record as it was.
C5_BusyRejected ==
    [][\A t \in TaskIDs, a \in AgentIDs :
          (/\ t \in DOMAIN tasks
           /\ a \in DOMAIN agents
           /\ agents[a].Status # StatusIdle
           /\ AssignTask(t, a))
              => (ret'.err = ErrAgentBusy /\ RegistryUnchanged)]_vars

\* An AssignTask call has just been refused for a Working agent.
W_C5 ==
    /\ ret.err = ErrAgentBusy
    /\ \E a \in DOMAIN agents : agents[a].Status = StatusWorking
    /\ \E a \in DOMAIN agents : agents[a].Status = StatusOffline

\* C6: an operation given an unknown identity returns the typed not-found
\* error and changes nothing: AssignTask returns ErrTaskNotFound for an
\* unknown task (whatever the agent) and ErrAgentNotFound for a known task
\* and an unknown agent; CompleteTask returns ErrTaskNotFound; StartAgent,
\* StopAgent and DeleteAgent return ErrAgentNotFound.
C6_UnknownIdentity ==
    [][/\ \A t \in TaskIDs, a \in AgentIDs :
              (t \notin DOMAIN tasks /\ AssignTask(t, a))
                  => (ret'.err = ErrTaskNotFound /\ RegistryUnchanged)
       /\ \A t \in TaskIDs, a \in AgentIDs :
              (t \in DOMAIN tasks /\ a \notin DOMAIN agents /\ AssignTask(t, a))
                  => (ret'.err = ErrAgentNotFound /\ RegistryUnchanged)
       /\ \A t \in TaskIDs, res \in Results :
              (t \notin DOMAIN tasks /\ CompleteTask(t, res))
                  => (ret'.err = ErrTaskNotFound /\ RegistryUnchanged)
       /\ \A a \in AgentIDs :
              (a \notin DOMAIN agents /\ (StartAgent(a) \/ StopAgent(a) \/ DeleteAgent(a)))
                  => (ret'.err = ErrAgentNotFound /\ RegistryUnchanged)]_vars

\* A call has just been refused for an unknown agent while an agent and a
\* task are registered.
W_C6 ==
    /\ ret.err = ErrAgentNotFound
    /\ DOMAIN tasks # {}
    /\ Cardinality(DOMAIN agents) = 1

\* C7: a successful AssignTask(t, a) sets the task's AssignedTo to a, its
\* Status to InProgress and its StartedAt, sets the agent's Status to Working
\* and its CurrentTask to t, and changes no other task or agent.
C7_AssignEffect ==
    [][\A t \in TaskIDs, a \in AgentIDs :
          (AssignTask(t, a) /\ ret'.err = ErrNil)
              => /\ tasks'[t].AssignedTo = a
                 /\ tasks'[t].Status = TaskStatusInProgress
                 /\ tasks'[t].StartedAt
                 /\ agents'[a].Status = StatusWorking
                 /\ agents'[a].CurrentTask = t
                 /\ DOMAIN tasks' = DOMAIN tasks
                 /\ DOMAIN agents' = DOMAIN agents
                 /\ \A u \in DOMAIN tasks \ {t} : tasks'[u] = tasks[u]
                 /\ \A b \in DOMAIN agents \ {a} : agents'[b] = agents[b]]_vars

\* AssignTask has just succeeded for one of two agents and one of two tasks.
W_C7 ==
    /\ ret.err = ErrNil
    /\ \E t, u \in DOMAIN tasks, a, b \in DOMAIN agents :
          /\ t # u /\ a # b
          /\ tasks[t].Status = TaskStatusInProgress /\ tasks[t].AssignedTo = a
          /\ tasks[t].StartedAt
          /\ agents[a].Status = StatusWorking /\ agents[a].CurrentTask = t
          /\ tasks[u].Status = TaskStatusPending
          /\ agents[b].Status = StatusIdle

\* C8: after a successful CompleteTask on a task whose assignee is
\* registered, the assignee's SuccessRate is
\* TasksCompleted / (TasksCompleted + TasksFailed), whatever the result.
C8_SuccessRateExact ==
    [][\A t \in TaskIDs, res \in Results :
          (/\ t \in DOMAIN tasks
           /\ tasks[t].AssignedTo \in DOMAIN agents
           /\ CompleteTask(t, res))
              => LET st == agents'[tasks[t].AssignedTo]
                 IN  st.SuccessRate =
                         Div(st.TasksCompleted, st.TasksCompleted + st.TasksFailed)]_vars

\* C9: a successful CompleteTask(t, result) sets the task's Status to
\* Completed, its CompletedAt and its Result to result; a registered assignee
\* becomes Idle with no CurrentTask and one more TasksCompleted; every other
\* agent and task is unchanged.
C9_CompleteEffect ==
    [][\A t \in TaskIDs, res \in Results :
          (t \in DOMAIN tasks /\ CompleteTask(t, res))
              => /\ ret'.err = ErrNil
                 /\ tasks'[t].Status = TaskStatusCompleted
                 /\ tasks'[t].CompletedAt
                 /\ tasks'[t].Result = res
                 /\ DOMAIN tasks' = DOMAIN tasks
                 /\ DOMAIN agents' = DOMAIN agents
                 /\ \A u \in DOMAIN tasks \ {t} : tasks'[u] = tasks[u]
                 /\ \A b \in DOMAIN agents \ {tasks[t].AssignedTo} : agents'[b] = agents[b]
                 /\ \A a \in DOMAIN agents \cap {tasks[t].AssignedTo} :
                        /\ agents'[a].Status = StatusIdle
                        /\ agents'[a].CurrentTask = NoTask
                        /\ agents'[a].TasksCompleted = agents[a].TasksCompleted + 1]_vars

\* CompleteTask has just completed the task of one agent while the other
\* agent works on the other task.
W_C9 ==
    /\ ret.err = ErrNil
    /\ \E t, u \in DOMAIN tasks, a, b \in DOMAIN agents :
          /\ t # u /\ a # b
          /\ tasks[t].Status = TaskStatusCompleted /\ tasks[t].AssignedTo = a
          /\ tasks[t].Result # NilResult /\ tasks[t].CompletedAt
          /\ agents[a].Status = StatusIdle /\ agents[a].CurrentTask = NoTask
          /\ agents[a].TasksCompleted = 1
          /\ tasks[u].Status = TaskStatusInProgress /\ tasks[u].AssignedTo = b
          /\ agents[b].Status = StatusWorking /\ agents[b].CurrentTask = u
          /\ agents[b].TasksCompleted = 0

\* A step of AutoAssign, for some iteration order of the two maps.
AutoAssignStep ==
    \E tord \in Perms(DOMAIN tasks), aords \in [DOMAIN tasks -> Perms(DOMAIN agents)] :
           AutoAssign(tord, aords)

\* C10: every agent AutoAssign gives a task to, and every agent it changes,
\* was Idle with auto-assign enabled before the call, and no agent is given
\* more than one task by one call.
C10_AutoAssignEligibleOnly ==
    [][AutoAssignStep =>
          LET Given(a) == {t \in DOMAIN tasks :
                              tasks'[t] # tasks[t] /\ tasks'[t].AssignedTo = a}
          IN  /\ \A t \in DOMAIN tasks :
                     tasks'[t] # tasks[t] => tasks'[t].AssignedTo \in DOMAIN agents
              /\ \A a \in DOMAIN agents :
                     (agents'[a] # agents[a] \/ Given(a) # {})
                         => /\ agents[a].Status = StatusIdle
                            /\ agents[a].AutoAssign
                            /\ Cardinality(Given(a)) = 1]_vars

\* AutoAssign has just assigned one of two Pending tasks: one agent took a
\* task, the other task stays Pending although an Idle agent without labels,
\* whose auto-assign flag is off, is registered.
W_C10 ==
    /\ ret.assigned = 1
    /\ \E t, u \in DOMAIN tasks, a, b \in DOMAIN agents :
          /\ t # u /\ a # b
          /\ tasks[t].Status = TaskStatusQueued /\ tasks[t].AssignedTo = a
          /\ agents[a].Status = StatusWorking /\ agents[a].AutoAssign
          /\ tasks[u].Status = TaskStatusPending
          /\ agents[b].Status = StatusIdle /\ ~agents[b].AutoAssign
          /\ agents[b].Labels = {}

\* C11: every task AutoAssign changes was Pending and is Queued afterwards,
\* with AssignedTo naming a registered agent that is then Working with that
\* task as its CurrentTask; tasks that were not Pending are unchanged; the
\* count returned is the number of tasks that went from Pending to Queued.
C11_AutoAssignEffect ==
    [][AutoAssignStep =>
          LET Moved == {t \in DOMAIN tasks :
                           /\ tasks[t].Status = TaskStatusPending
                           /\ tasks'[t].Status = TaskStatusQueued}
          IN  /\ DOMAIN tasks' = DOMAIN tasks
              /\ DOMAIN agents' = DOMAIN agents
              /\ \A t \in DOMAIN tasks : tasks'[t] # tasks[t] => t \in Moved
              /\ \A t \in DOMAIN tasks :
                     tasks[t].Status # TaskStatusPending => tasks'[t] = tasks[t]
              /\ \A t \in Moved :
                     /\ tasks'[t].AssignedTo \in DOMAIN agents
                     /\ agents'[tasks'[t].AssignedTo].Status = StatusWorking
                     /\ agents'[tasks'[t].AssignedTo].CurrentTask = t
                     /\ tasks'[t] = [tasks[t] EXCEPT !.Status = TaskStatusQueued,
                                                     !.AssignedTo = tasks'[t].AssignedTo]
              /\ ret'.assigned = Cardinality(Moved)]_vars

\* AutoAssign has just assigned two Pending tasks to two agents.
W_C11 ==
    /\ ret.assigned = 2
    /\ \E t, u \in DOMAIN tasks, a, b \in DOMAIN agents :
          /\ t # u /\ a # b
          /\ tasks[t].Status = TaskStatusQueued /\ tasks[t].AssignedTo = a
          /\ tasks[u].Status = TaskStatusQueued /\ tasks[u].AssignedTo = b
          /\ agents[a].Status = StatusWorking /\ agents[a].CurrentTask = t
          /\ agents[b].Status = StatusWorking /\ agents[b].CurrentTask = u

\* The agent handles the task, as the specification words it.
Handles(agentLabels, taskLabels) ==
    agentLabels = {} \/ agentLabels \cap taskLabels # {}

\* C12: AutoAssign gives a Pending task only to an agent that handles it (no
\* labels, or a label shared with the task), so a task without labels goes
\* only to an agent without labels; a Pending task that no Idle auto-assign
\* agent handles stays as it is; and a task still Pending after the call is
\* handled by no agent that is still Idle with auto-assign on.
C12_HandlesByLabels ==
    [][AutoAssignStep =>
          \A t \in DOMAIN tasks :
              tasks[t].Status = TaskStatusPending =>
                  /\ tasks'[t] # tasks[t] =>
                         /\ Handles(agents[tasks'[t].AssignedTo].Labels, tasks[t].Labels)
                         /\ tasks[t].Labels = {} =>
                                agents[tasks'[t].AssignedTo].Labels = {}
                  /\ (\A a \in DOMAIN agents :
                         ~(/\ agents[a].Status = StatusIdle
                           /\ agents[a].AutoAssign
                           /\ Handles(agents[a].Labels, tasks[t].Labels)))
                         => tasks'[t] = tasks[t]
                  /\ tasks'[t].Status = TaskStatusPending =>
                         \A a \in DOMAIN agents :
                             (agents'[a].Status = StatusIdle /\ agents'[a].AutoAssign)
                                 => ~Handles(agents[a].Labels, tasks[t].Labels)]_vars

\* AutoAssign has just given the task labelled backend to one of two agents
\* labelled backend; the task without labels stays Pending although the
\* other agent is Idle with auto-assign on.
W_C12 ==
    /\ ret.assigned = 1
    /\ \E t, u \in DOMAIN tasks, a, b \in DOMAIN agents :
          /\ t # u /\ a # b
          /\ tasks[t].Status = TaskStatusQueued /\ tasks[t].AssignedTo = a
          /\ tasks[t].Labels = {"backend"} /\ agents[a].Labels = {"backend"}
          /\ agents[a].Status = StatusWorking
          /\ tasks[u].Status = TaskStatusPending /\ tasks[u].Labels = {}
          /\ agents[b].Status = StatusIdle /\ agents[b].AutoAssign
          /\ agents[b].Labels = {"backend"}

\* C13: the Status of an agent that stays registered (and is not registered
\* anew) changes only along the state machine: Idle to Working only in
\* AssignTask for it or in AutoAssign, Working to Idle only in CompleteTask of
\* its CurrentTask, into Offline only in StopAgent for it, and StartAgent
\* changes nothing of an agent that is not Offline.
C13_AgentStateMachine ==
    [][\A a \in DOMAIN agents \cap DOMAIN agents' :
          ~RegisterAgent(a, PlainAgent) =>
              /\ (agents[a].Status = StatusIdle /\ agents'[a].Status = StatusWorking)
                     => ((\E t \in TaskIDs : AssignTask(t, a)) \/ AutoAssignStep)
              /\ (agents[a].Status = StatusWorking /\ agents'[a].Status = StatusIdle)
                     => \E res \in Results : CompleteTask(agents[a].CurrentTask, res)
              /\ (agents[a].Status # StatusOffline /\ agents'[a].Status = StatusOffline)
                     => StopAgent(a)
              /\ (agents[a].Status # StatusOffline /\ StartAgent(a))
                     => agents'[a] = agents[a]]_vars

TerminalTaskStatuses == {TaskStatusCompleted, TaskStatusFailed, TaskStatusCancelled}

\* C14: a task in a terminal status (Completed, Failed, Cancelled) stays in
\* the Registry with its Status, AssignedTo and Result unchanged by every
\* operation, and a task has a Result only in a terminal status.
C14_TaskMonotonic ==
    [][/\ \A t \in DOMAIN tasks :
              tasks[t].Status \in TerminalTaskStatuses =>
                  /\ t \in DOMAIN tasks'
                  /\ tasks'[t].Status = tasks[t].Status
                  /\ tasks'[t].AssignedTo = tasks[t].AssignedTo
                  /\ tasks'[t].Result = tasks[t].Result
       /\ \A t \in DOMAIN tasks' :
              tasks'[t].Result # NilResult => tasks'[t].Status \in TerminalTaskStatuses]_vars

\* handleWebhook serves the request, for some order of the agent list and
\* some result of client.AssignTask.
WebhookStep(req) ==
    \E aord \in Perms(DOMAIN agents), ok \in BOOLEAN : handleWebhook(req, aord, ok)

\* C15: a task.updated event whose task_id is not in the mirror leaves the
\* mirror and the assignments as they are, starts no execution, and is
\* answered as processed.
C15_UnknownUpdateDropped ==
    [][\A req \in Requests :
          (/\ req.Method = "POST" /\ req.ValidJSON
           /\ req.Event.Type = "task.updated"
           /\ req.Event.task_id \notin DOMAIN mtasks
           /\ WebhookStep(req))
              => /\ UNCHANGED <<mtasks, share, assignments, asg>>
                 /\ received'.resp = "processed"]_vars

\* A task.updated event for a task the mirror does not hold has just been
\* served, while the mirror holds another task and an assignment exists.
W_C15 ==
    /\ received.Type = "task.updated"
    /\ received.resp = "processed"
    /\ received.task_id \in TaskIDs \ DOMAIN mtasks
    /\ mtasks # <<>>
    /\ assignments # <<>>

\* C16: when a poll cycle fetches a task that the mirror holds, from an
\* earlier cycle, with another status, then after the cycle the mirror's
\* entry for that ID (the mirror is a map: one entry per ID) holds the fields
\* the cycle returned for that task.
C16_PollLatestWins ==
    [][\A f \in PollLists :
          PollStep(f) =>
              \A i \in DOMAIN f :
                  (/\ f[i].ID \in DOMAIN mtasks
                   /\ mtasks[f[i].ID].ID = f[i].ID
                   /\ mtasks[f[i].ID].Status # f[i].Status)
                      => /\ f[i].ID \in DOMAIN mtasks'
                         /\ mtasks'[f[i].ID] = f[i]]_vars

NonSkipped == {a \in DOMAIN agents : agents[a].Status = Active}
TopScoring(task) ==
    {a \in NonSkipped :
        /\ calculateAgentScore(task, agents[a]) > 0
        /\ \A b \in NonSkipped :
               calculateAgentScore(task, agents[b]) <= calculateAgentScore(task, agents[a])}

\* C18: when a task.created event for an unassigned task is handled with
\* auto-assign on, findBestAgent returns a non-skipped agent whose score is
\* above 0 and the highest of the non-skipped agents, and the Assignment made
\* (when the project manager accepts it) names such an agent and starts its
\* execution; when no non-skipped agent scores above 0 it returns no agent,
\* and no Assignment is made and no execution is started.
C18_FindBestMax ==
    [][\A task \in BestTasks :
          \A aord \in Perms(DOMAIN agents), ok \in BOOLEAN :
              (config.AutoAssign /\ HandleTaskCreated(task, aord, ok)) =>
                  IF TopScoring(task) = {}
                  THEN /\ findBestAgent(task, aord) = NoAgent
                       /\ UNCHANGED <<assignments, asg>>
                  ELSE /\ findBestAgent(task, aord) \in TopScoring(task)
                       /\ ok => /\ task.ID \in DOMAIN assignments'
                                /\ assignments'[task.ID] = Len(asg) + 1
                                /\ asg' = Append(asg, NewAssignment(task.ID,
                                              findBestAgent(task, aord), "GetTask"))]_vars

\* An execution was started for a task with the agent of the highest score,
\* while another agent that is not skipped has a lower score above 0.
W_C18 ==
    /\ config.AutoAssign
    /\ \E i \in DOMAIN asg :
           /\ asg[i].pc = "GetTask"
           /\ asg[i].AgentID \in TopScoring(PTask(asg[i].TaskID, Todo, NoAgent))
           /\ \E b \in NonSkipped :
                  /\ calculateAgentScore(PTask(asg[i].TaskID, Todo, NoAgent), agents[b]) > 0
                  /\ b \notin TopScoring(PTask(asg[i].TaskID, Todo, NoAgent))

\* C19: in a poll cycle with auto-assign on in which the project manager
\* accepts every AssignTask call, every fetched task without assignee for
\* which an agent of the Registry with Status idle scores above 0 gets a new
\* Assignment, and its execution is started.
C19_PollAutoAssigns ==
    [][\A f \in PollLists, perIteration \in BOOLEAN :
          \A ords \in [DOMAIN f -> Perms(DOMAIN agents)] :
              (/\ config.AutoAssign
               /\ LoadTasks(f, TRUE, perIteration, ords, [i \in DOMAIN f |-> TRUE]))
                  => \A i \in DOMAIN f :
                         (/\ f[i].Assignee = NoAgent
                          /\ \E a \in DOMAIN agents :
                                 /\ agents[a].Status = StatusIdle
                                 /\ calculateAgentScore(f[i], agents[a]) > 0)
                             => \E k \in DOMAIN asg' \ DOMAIN asg :
                                    /\ asg'[k].TaskID = f[i].ID
                                    /\ asg'[k].pc = "GetTask"
                                    /\ f[i].ID \in DOMAIN assignments'
                                    /\ assignments'[f[i].ID] = k]_vars

C29_DuplicateAssignedIdempotent ==
    [][(/\ "t1" \in DOMAIN assignments
        /\ asg[assignments["t1"]].AgentID = "a1"
        /\ HandleTaskAssigned("t1", "a1"))
           => /\ asg'[assignments'["t1"]].TaskID = asg[assignments["t1"]].TaskID
              /\ asg'[assignments'["t1"]].AgentID = asg[assignments["t1"]].AgentID
              /\ asg'[assignments'["t1"]].Status = asg[assignments["t1"]].Status
              /\ \A k \in DOMAIN asg' \ DOMAIN asg : asg'[k].pc = "none"]_vars

\* The event lacks a field its type requires.
Malformed(event) ==
    \/ event.Type = "task.created"
           /\ (event.task = NoTaskData \/ event.task.ID = NoField)
    \/ event.Type = "task.updated" /\ event.task_id = NoField
    \/ event.Type = "task.assigned"
           /\ (event.task_id = NoField \/ event.agent_id = NoField)

\* C30: a webhook event that lacks a required field (task.created without a
\* task object or with a task object without id, task.updated without
\* task_id, task.assigned without task_id or agent_id) leaves the mirror and
\* the assignments as they are and starts no execution.
C30_MalformedEventDropped ==
    [][\A req \in Requests :
          (/\ req.Method = "POST" /\ req.ValidJSON
           /\ Malformed(req.Event)
           /\ WebhookStep(req))
              => UNCHANGED <<mtasks, share, assignments, asg>>]_vars

\* s is an initial part of t.
IsPrefix(s, t) == Len(s) <= Len(t) /\ SubSeq(t, 1, Len(s)) = s

\* C22: the status updates an execution has sent to the project manager are
\* "in_progress" first and then one terminal status, "done" or "blocked";
\* none is sent before the task detail was fetched, and the terminal one not
\* before the run; an execution that sent "done" left its Assignment
\* "completed", one that sent "blocked" left it "failed", and an execution
\* that returned after the run has sent its terminal status.
C22_ExecutionSequence ==
    \A i \in DOMAIN asg :
        /\ \/ IsPrefix(asg[i].pushed, <<"in_progress", "done">>)
           \/ IsPrefix(asg[i].pushed, <<"in_progress", "blocked">>)
        /\ asg[i].pc \in {"none", "GetTask", "UpdateInProgress"} => asg[i].pushed = <<>>
        /\ asg[i].pc \in {"executeWithAgent", "SetStatus", "UpdateFinal"}
               => Len(asg[i].pushed) = 1
        /\ Len(asg[i].pushed) = 2
               => /\ asg[i].pushed[2] = "done" => asg[i].Status = Completed
                  /\ asg[i].pushed[2] = "blocked" => asg[i].Status = Failed
        /\ (asg[i].pc = "returned" /\ asg[i].result # "") => Len(asg[i].pushed) = 2

\* C23: every execution that was started eventually leaves its Assignment
\* "completed" or "failed", when its goroutine is scheduled fairly.
C23_ExecutionTerminates ==
    \A i \in 1..MaxAssignments :
        (i \in DOMAIN asg /\ asg[i].pc # "none")
            ~> (i \in DOMAIN asg /\ asg[i].Status \in {Completed, Failed})

\* C24: an execution whose agent is not in the Registry when it is resolved
\* does not invoke the execution routine and gets the error "Agent not
\* found"; it then leaves its Assignment "failed" and sends the status
\* "blocked" to the project manager.
C24_AgentNotFound ==
    /\ [][\A i \in DOMAIN asg :
             (asg[i].AgentID \notin DOMAIN agents /\ ExecExecuteWithAgent(i))
                 => /\ Call("simulateTaskExecution", {}) \notin net' \ net
                    /\ asg'[i].error = "Agent not found"
                    /\ asg'[i].result = Failed]_vars
    /\ [](\A i \in DOMAIN asg :
             (asg[i].error = "Agent not found" /\ asg[i].pc = "returned")
                 => /\ asg[i].Status = Failed
                    /\ asg[i].pushed[Len(asg[i].pushed)] = "blocked")

\* C21: every write of Manager.tasks, of Manager.assignments and of the
\* Status of a TaskAssignment is made by a goroutine holding taskMutex
\* exclusively, and every read of them by one holding it at least shared.
C21_SharedStateLocked ==
    \A a \in acc :
        /\ a.kind = "write" => "taskMutex" \in a.held
        /\ a.kind = "read" => a.held # {}

\* C25: when Stop has returned without its timeout, the poll loop has
\* exited and no execution that was started is still running.
C25_StopWaitsForAll ==
    life.stop = "returned"
        => /\ life.poller \in {"none", "exited"}
           /\ \A i \in DOMAIN asg : asg[i].pc \in {"none", "returned"}

\* C26: once Stop has cancelled the context, no poll cycle is started and no
\* execution is started, neither by the poll path nor by a webhook handler.
C26_NothingNewAfterCancel ==
    [][life.ctx = "cancelled"
          => /\ life'.polls = life.polls
             /\ \A k \in DOMAIN asg' \ DOMAIN asg : asg'[k].pc = "none"]_vars

\* C27: an execution that was running when Stop cancelled the context is not
\* cut short by the cancellation: when it has returned, its Assignment is
\* "completed" or "failed" and the last status it sent to the project
\* manager is the terminal one, "done" or "blocked".
C27_InFlightRunsToEnd ==
    \A i \in life.inflight :
        asg[i].pc = "returned"
            => /\ asg[i].Status \in {Completed, Failed}
               /\ asg[i].pushed # <<>>
               /\ asg[i].pushed[Len(asg[i].pushed)] \in {"done", "blocked"}

\* C28: a poll cycle whose GetTasks call fails makes that one call and no
\* other, leaves the mirror and the assignments as they are, starts no
\* execution, and leaves the poll loop at its select, where the next tick
\* runs a new cycle.
C28_FailedPollCycle ==
    [][\A f \in StopLists :
          TaskPollerCycle(f, FALSE)
              => /\ life'.polls = Append(life.polls, "failed")
                 /\ UNCHANGED <<mtasks, share, assignments, asg>>
                 /\ life'.poller = "select"
                 /\ life'.wg = life.wg]_vars

\* A poll cycle has failed with the context live, and the next cycle has
\* loaded a task.
W_C28 ==
    /\ life.polls = <<"failed", "loaded">>
    /\ life.ctx = "active"
    /\ mtasks # <<>>

\* The positions of the registered tools that can handle the intent.
Handlers(intent) == {i \in DOMAIN tm.tools : CanHandle(tm.tools[i], intent)}

\* C31: FindTool returns the tool registered first among those whose
\* CanHandle(intent) is true, and nil when there is none; the ToolManager's
\* CanHandle(intent) is true exactly when FindTool(intent) is not nil; and
\* GetTool(name) returns the tool registered first among those of that name,
\* and nil when there is none.
C31_ToolLookup ==
    /\ tm.ret.call = "FindTool"
           => /\ Handlers(tm.ret.arg) = {} => tm.ret.out = NilTool
              /\ Handlers(tm.ret.arg) # {}
                     => tm.ret.out = tm.tools[Min(Handlers(tm.ret.arg))]
    /\ tm.ret.call = "CanHandle"
           => (tm.ret.out <=> Handlers(tm.ret.arg) # {})
    /\ tm.ret.call = "GetTool"
           => LET named == {i \in DOMAIN tm.tools : tm.tools[i].Name = tm.ret.arg}
              IN /\ named = {} => tm.ret.out = NilTool
                 /\ named # {} => tm.ret.out = tm.tools[Min(named)]

\* FindTool has returned the first of two registered tools that both can
\* handle the intent.
W_C31 ==
    /\ tm.ret.call = "FindTool"
    /\ Cardinality(Handlers(tm.ret.arg)) >= 2
    /\ tm.ret.out = tm.tools[Min(Handlers(tm.ret.arg))]
    /\ \E i \in Handlers(tm.ret.arg) : tm.tools[i] # tm.ret.out

\* C32: a task.assigned event stores for its task an Assignment with that
\* task, that agent and the status "assigned", whether or not the task is in
\* the mirror, and starts the execution of it exactly when the task is in
\* the mirror with the status "todo".
C32_AssignedEvent ==
    [][\A id \in TaskIDs, a \in AgentIDs :
          HandleTaskAssigned(id, a)
              => /\ id \in DOMAIN assignments'
                 /\ assignments'[id] \notin DOMAIN asg
                 /\ asg'[assignments'[id]].TaskID = id
                 /\ asg'[assignments'[id]].AgentID = a
                 /\ asg'[assignments'[id]].Status = Assigned
                 /\ asg'[assignments'[id]].pc # "none"
                        <=> (id \in DOMAIN mtasks /\ mtasks[id].Status = Todo)
                 /\ \A k \in DOMAIN asg : asg'[k] = asg[k]]_vars

\* A task.assigned event came for a task that is not in the mirror: its
\* Assignment is stored, "assigned", and no execution was started.
W_C32 ==
    /\ "t1" \in DOMAIN assignments
    /\ "t1" \notin DOMAIN mtasks
    /\ asg[assignments["t1"]].Status = Assigned
    /\ asg[assignments["t1"]].pc = "none"

\* C33: CompleteTask for a task that is Completed already and whose assignee
\* is registered succeeds again, counts one more completed task for that
\* agent and leaves the agent Idle without CurrentTask, whatever task the
\* agent was working on.
C33_CompleteTaskRepeated ==
    [][\A t \in TaskIDs, res \in Results :
          (/\ t \in DOMAIN tasks
           /\ tasks[t].Status = TaskStatusCompleted
           /\ tasks[t].AssignedTo \in DOMAIN agents
           /\ CompleteTask(t, res))
              => LET a == tasks[t].AssignedTo IN
                 /\ ret'.err = ErrNil
                 /\ agents'[a].TasksCompleted = agents[a].TasksCompleted + 1
                 /\ agents'[a].Status = StatusIdle
                 /\ agents'[a].CurrentTask = NoTask]_vars

\* t1 was completed twice: the second time after its agent was given t2,
\* which is still assigned to the agent, now Idle without CurrentTask.
W_C33 ==
    /\ DOMAIN tasks = {"t1", "t2"}
    /\ tasks["t1"].Status = TaskStatusCompleted
    /\ tasks["t2"].Status \in {TaskStatusQueued, TaskStatusInProgress}
    /\ tasks["t2"].AssignedTo = "a1"
    /\ "a1" \in DOMAIN agents
    /\ agents["a1"].TasksCompleted = 2
    /\ agents["a1"].Status = StatusIdle
    /\ agents["a1"].CurrentTask = NoTask

\* The number of pairs of a keyword of the task and a capability of the
\* agent such that the keyword occurs in the capability.
MatchCount(task, agent) ==
    Cardinality({p \in (DOMAIN taskKeywords[task.ID]) \X (DOMAIN agent.Capabilities) :
        LET kw == taskKeywords[task.ID][p[1]]
            cap == agent.Capabilities[p[2]]
        IN \E i \in 1..(Len(cap) - Len(kw) + 1) :
               \A j \in 1..Len(kw) : cap[i + j - 1] = kw[j]})

\* C34: the score of an agent for a task is its number of matching (keyword,
\* capability) pairs times (100 - Load)/100 (here in hundredths); so it is
\* never negative, of two agents with the same number of matches the one
\* with the lower Load does not score lower, and an agent with Load 100
\* scores 0 and is not what findBestAgent returns.
C34_ScoreByLoad ==
    \A task \in BestTasks :
        \A a \in DOMAIN agents :
            /\ calculateAgentScore(task, agents[a])
                   = MatchCount(task, agents[a]) * (100 - agents[a].Load)
            /\ calculateAgentScore(task, agents[a]) >= 0
            /\ \A b \in DOMAIN agents :
                   (/\ MatchCount(task, agents[a]) = MatchCount(task, agents[b])
                    /\ agents[a].Load <= agents[b].Load)
                       => calculateAgentScore(task, agents[a])
                              >= calculateAgentScore(task, agents[b])
            /\ agents[a].Load = 100
                   => /\ calculateAgentScore(task, agents[a]) = 0
                      /\ \A aord \in Perms(DOMAIN agents) :
                             findBestAgent(task, aord) # a

\* A task was created and given to an agent while another agent, active and
\* matching the task as often, has Load 100.
W_C34 ==
    \E a, b \in DOMAIN agents, t \in DOMAIN assignments :
        /\ agents[a].Status = Active
        /\ agents[a].Load = 100
        /\ MatchCount(PTask(t, Todo, NoAgent), agents[a]) > 0
        /\ MatchCount(PTask(t, Todo, NoAgent), agents[a])
               = MatchCount(PTask(t, Todo, NoAgent), agents[b])
        /\ asg[assignments[t]].AgentID = b
        /\ agents[b].Load < 100

C36_MirrorKeyed ==
    /\ [](\A k \in DOMAIN mtasks : mtasks[k].ID = k /\ share[k] = {k})
    /\ [][DOMAIN mtasks \subseteq DOMAIN mtasks']_vars

\* C37: every task that is Queued or InProgress is assigned to a registered
\* agent whose CurrentTask is that task, and the CurrentTask of every
\* registered agent, when it has one, is a registered task assigned to that
\* agent.
C37_ReferentialIntegrity ==
    /\ \A t \in DOMAIN tasks :
           tasks[t].Status \in {TaskStatusQueued, TaskStatusInProgress}
               => /\ tasks[t].AssignedTo \in DOMAIN agents
                  /\ agents[tasks[t].AssignedTo].CurrentTask = t
    /\ \A a \in DOMAIN agents :
           agents[a].CurrentTask # NoTask
               => /\ agents[a].CurrentTask \in DOMAIN tasks
                  /\ tasks[agents[a].CurrentTask].AssignedTo = a

\* C38: with agents registered with zero statistics, no operation of the
\* Registry changes the TasksFailed of an agent, which stays 0, or makes a
\* task Failed or Cancelled; GetStats counts 0 failed tasks; and the
\* SuccessRate CompleteTask computes is 1.
C38_NothingFails ==
    /\ [](/\ \A a \in DOMAIN agents : agents[a].TasksFailed = 0
          /\ \A t \in DOMAIN tasks :
                 tasks[t].Status \notin {TaskStatusFailed, TaskStatusCancelled}
          /\ GetStats.failed_tasks = 0)
    /\ [][\A t \in TaskIDs :
             (/\ t \in DOMAIN tasks
              /\ tasks[t].AssignedTo \in DOMAIN agents
              /\ CompleteTask(t, "result"))
                 => agents'[tasks[t].AssignedTo].SuccessRate = <<1, 1>>]_vars

\* CompleteTask has counted two completions for an agent, the last with a
\* result: the agent has no failed task and the SuccessRate 1, and GetStats
\* counts one completed task and no failed one.
W_C38 ==
    \E a \in DOMAIN agents :
        /\ agents[a].TasksCompleted = 2
        /\ agents[a].TasksFailed = 0
        /\ agents[a].SuccessRate = <<1, 1>>
        /\ GetStats.completed_tasks = 1
        /\ GetStats.failed_tasks = 0

\* C39: a call of retry.Do with MaxRetries >= 0 calls fn at most
\* MaxRetries + 1 times, and at least once when it has returned, unless the
\* context was done before the first attempt and Do returned the context's
\* error; no call of fn follows one that returned
\* nil, and Do then returns nil; every wait after the first is at most
\* MaxWait; and Do returns.
C39_RetryBounded ==
    /\ [](retry.pc # "none" /\ retry.cfg.MaxRetries >= 0
              => /\ Len(retry.calls) <= retry.cfg.MaxRetries + 1
                 /\ (retry.pc = "returned" /\ Len(retry.calls) = 0)
                        => retry.ctx # "nil" /\ retry.ret = <<retry.ctx>>
                 /\ \A i \in DOMAIN retry.calls :
                        retry.calls[i] = "nil"
                            => /\ i = Len(retry.calls)
                               /\ retry.pc = "returned"
                               /\ retry.ret = <<"nil">>
                 /\ \A i \in DOMAIN retry.waits :
                        i > 1 => retry.waits[i] <= retry.cfg.MaxWait)
    /\ (retry.pc # "none") ~> (retry.pc = "returned")

\* Do returned nil after fn failed twice and succeeded the third time, the
\* first wait being longer than MaxWait.
W_C39 ==
    /\ retry.pc = "returned"
    /\ retry.ret = <<"nil">>
    /\ Len(retry.calls) = 3
    /\ Len(retry.waits) = 2
    /\ retry.waits[1] > retry.cfg.MaxWait

\* C40: in a call of retry.Do with MaxRetries >= 0, an error of fn for which
\* isRetryable is false is the last result of fn and is what Do returns,
\* itself; when fn was called MaxRetries + 1 times and every result was a
\* retryable error, Do returns ErrMaxRetriesExceeded joined with the last of
\* them; and when the context is done at the head of an attempt or during a
\* wait, fn is not called again and Do returns the context's error.
C40_RetryErrors ==
    /\ [](retry.pc # "none" /\ retry.cfg.MaxRetries >= 0
              => /\ \A i \in DOMAIN retry.calls :
                        (retry.calls[i] # "nil" /\ ~isRetryable(retry.calls[i]))
                            => /\ i = Len(retry.calls)
                               /\ retry.pc = "returned"
                               /\ retry.ret = <<retry.calls[i]>>
                 /\ (/\ Len(retry.calls) = retry.cfg.MaxRetries + 1
                     /\ \A i \in DOMAIN retry.calls :
                            retry.calls[i] # "nil" /\ isRetryable(retry.calls[i]))
                        => /\ retry.pc = "returned"
                           /\ retry.ret = <<"max retries exceeded",
                                            retry.calls[Len(retry.calls)]>>)
    /\ [][(/\ retry.pc \in {"check", "wait"}
           /\ retry.cfg.MaxRetries >= 0
           /\ retry.ctx # "nil")
              => /\ retry'.calls = retry.calls
                 /\ retry'.ctx = retry.ctx
                 /\ \/ retry'.pc = "returned" /\ retry'.ret = <<retry.ctx>>
                    \/ retry.pc = "wait" /\ retry'.pc = "check"]_vars
    /\ (retry.pc \in {"check", "wait"} /\ retry.cfg.MaxRetries >= 0
            /\ retry.ctx # "nil")
           ~> (retry.pc = "returned" /\ retry.ret = <<retry.ctx>>)

\* The context was cancelled during the wait after a first attempt that
\* failed with a retryable error, and Do returned the context's error
\* after that one call of fn.
W_C40 ==
    /\ retry.pc = "returned"
    /\ retry.cfg.MaxRetries >= 1
    /\ retry.calls = <<"connection refused">>
    /\ Len(retry.waits) = 1
    /\ retry.ret = <<"context canceled">>
====
